---- MODULE Spec2Model ----
(***************************************************************************)
(* Model of the markup-to-AST conversion step                              *)
(* (steps/3-parse-llm-output/output_html_to_ast_json.ts, kept here as      *)
(* src/unnamed/part_006).                                                  *)
(*                                                                         *)
(* Strings are sequences of characters.  A character is a short token:     *)
(*   " " "\n"            whitespace                                        *)
(*   "0" .. "9"          ASCII digits                                      *)
(*   "c1" .. "c20"       the circled number glyphs U+2460 .. U+2473        *)
(*   "-"                 hyphen-minus                                      *)
(*   "en" "em"           en dash U+2013, em dash U+2014                    *)
(*   "ja"                katakana-hiragana prolonged sound mark U+30FC     *)
(*   "box"               box drawings light horizontal U+2500              *)
(*   "~"                 tilde (a character outside the dash class)        *)
(*   "(" ")" "[" "]" "." ASCII punctuation                                 *)
(*   "fo" "fc"           fullwidth parentheses U+FF08, U+FF09              *)
(*   "ban" "me"          the two ideographs of the suffix "N-banme"        *)
(*   "hi"                a hiragana letter                                 *)
(*   "a" "b" "A" ...     ASCII letters                                     *)
(*                                                                         *)
(* A markup node is a record: a text leaf [nodeType |-> 3, rawText] or an  *)
(* element [nodeType |-> 1, tagName, attrs, childNodes]; attrs is a        *)
(* function from the attribute names that are present to their values.     *)
(***************************************************************************)
EXTENDS Integers, Sequences, FiniteSets, TLC

VARIABLES
    section,        \* parseReadingSection: the section node (input)
    rpc,            \* parseReadingSection: "idle" | "start" | "done"
    qsByKey,        \* parseReadingSection: key -> positions of the questions attached by the scan
    out,            \* parseReadingSection: the sections returned
    aNode,          \* answerIndices / answerIndex: the choices node (input)
    apc,            \* answerIndices / answerIndex: "idle" | "start" | "done"
    aIndices,       \* answerIndices: the list returned
    aIndex,         \* answerIndex: the number returned
    gateIn,         \* isWordOrderQuestion: the parts the question is written from (input)
    gpc,            \* isWordOrderQuestion: "idle" | "start" | "done"
    gateOut,        \* isWordOrderQuestion: the boolean returned
    argInput,       \* main: the --input argument
    overwrite,      \* main: the --overwrite flag
    disk,           \* main: the .txt files below the input directory (paths relative to it)
    outDocs,        \* main: the documents in the output directory, by path
    toScan,         \* main: the files the glob scan has not yielded yet
    byTest,         \* main: test id -> the files discovered for it, in discovery order
    mpc,            \* main: "idle" | "scan" | "read" | "done" | "failed"
    order,          \* main: the test ids still to process, sorted
    pending,        \* main: the files of the current test id still to read, sorted
    readingSections,    \* main: the current test's reading sections
    listeningSections,  \* main: the current test's listening sections
    error,          \* main: the error thrown, if any
    log,            \* main: the file reads and document writes done, in order
    cIn,            \* chunk producers: the input drawn, [kind, node]
    cpc,            \* chunk producers: "idle" | "start" | "done"
    cOut,           \* chunk producers: the chunks produced
    fnIn,           \* a call of a function of the parser or of the flattening step: [kind, ...] (input)
    fnPc,           \* the call: "idle" | "start" | "done"
    fnOut           \* the call: the value returned

readingVars == <<section, rpc, qsByKey, out>>

answerVars == <<aNode, apc, aIndices, aIndex>>

gateVars == <<gateIn, gpc, gateOut>>

mainVars ==
    <<argInput, overwrite, disk, outDocs, toScan, byTest, mpc, order, pending,
      readingSections, listeningSections, error, log>>

chunkVars == <<cIn, cpc, cOut>>

fnVars == <<fnIn, fnPc, fnOut>>

vars == <<readingVars, answerVars, gateVars, mainVars, chunkVars, fnVars>>

\* the variables each specification leaves alone
readingOthers == <<answerVars, gateVars, mainVars, chunkVars, fnVars>>

answerOthers == <<readingVars, gateVars, mainVars, chunkVars, fnVars>>

gateOthers == <<readingVars, answerVars, mainVars, chunkVars, fnVars>>

mainOthers == <<readingVars, answerVars, gateVars, chunkVars, fnVars>>

chunkOthers == <<readingVars, answerVars, gateVars, mainVars, fnVars>>

fnOthers == <<readingVars, answerVars, gateVars, mainVars, chunkVars>>

----------------------------------------------------------------------------
(* Generic helpers *)

\* the value getAttribute gives for an attribute that is not present
Null == <<"<null>">>

RECURSIVE SeqsUpTo(_, _)
\* all sequences over S of length at most n
SeqsUpTo(S, n) ==
    IF n = 0 THEN {<<>>}
    ELSE LET shorter == SeqsUpTo(S, n - 1)
         IN  shorter \cup {Append(s, x) : s \in {t \in shorter : Len(t) = n - 1}, x \in S}

RECURSIVE Flatten(_)
\* concatenation of a sequence of sequences
Flatten(ss) == IF ss = <<>> THEN <<>> ELSE Head(ss) \o Flatten(Tail(ss))

\* Array.prototype.filter by a predicate on the element
FilterSeq(s, P(_)) == SelectSeq(s, P)

\* the positions 1..Len(s), as a sequence
Positions(s) == [i \in 1..Len(s) |-> i]

----------------------------------------------------------------------------
(* Text Classifier *)

\* \s, and the characters trim() strips: the space, the line feed and the
\* ideographic space U+3000 ("isp") stand for the class
IsWs(c) == c \in {" ", "\n", "isp"}

RECURSIVE TrimLeft(_)
TrimLeft(s) == IF s # <<>> /\ IsWs(Head(s)) THEN TrimLeft(Tail(s)) ELSE s

RECURSIVE TrimRight(_)
TrimRight(s) ==
    IF s # <<>> /\ IsWs(s[Len(s)]) THEN TrimRight(SubSeq(s, 1, Len(s) - 1)) ELSE s

\* String.prototype.trim
Trim(s) == TrimRight(TrimLeft(s))

RECURSIVE CollapseWs(_)
\* text.replace(/\s+/g, ' ')
CollapseWs(s) ==
    IF s = <<>> THEN <<>>
    ELSE IF IsWs(Head(s)) THEN <<" ">> \o CollapseWs(TrimLeft(s))
    ELSE <<Head(s)>> \o CollapseWs(Tail(s))

\* mutant: the ends are not trimmed
normalizeWsNoTrim(text) == CollapseWs(text)

normalizeWs(text) == Trim(CollapseWs(text))

----------------------------------------------------------------------------
(* Markup tree (node-html-parser, parsed with lowerCaseTagName) *)

TextNode(raw) == [nodeType |-> 3, rawText |-> raw]

Element(tag, attrs, children) ==
    [nodeType |-> 1, tagName |-> tag, attrs |-> attrs, childNodes |-> children]

\* an element without attributes
NoAttrs == [a \in {} |-> <<>>]

\* what querySelector gives when nothing matches
NoNode == [nodeType |-> 0]

isElement(n) == n.nodeType = 1

isText(n) == n.nodeType = 3

\* node.getAttribute(name)
GetAttribute(n, name) ==
    IF isElement(n) /\ name \in DOMAIN n.attrs THEN n.attrs[name] ELSE Null

\* (node.getAttribute(name) ?? '')
AttrOrEmpty(n, name) ==
    IF GetAttribute(n, name) = Null THEN <<>> ELSE GetAttribute(n, name)

RECURSIVE Descendants(_)
\* the element descendants of a node list, in document order
Descendants(nodes) ==
    IF nodes = <<>> THEN <<>>
    ELSE LET h == Head(nodes)
         IN  (IF isElement(h) THEN <<h>> \o Descendants(h.childNodes) ELSE <<>>)
                 \o Descendants(Tail(nodes))

\* node.querySelectorAll(tag)
QuerySelectorAll(n, tag) ==
    IF isElement(n)
    THEN SelectSeq(Descendants(n.childNodes), LAMBDA e : e.tagName = tag)
    ELSE <<>>

\* node.querySelector(tag)
QuerySelector(n, tag) ==
    LET all == QuerySelectorAll(n, tag)
    IN  IF all = <<>> THEN NoNode ELSE all[1]

RECURSIVE RawTextOf(_)
\* the text of a node list: the text leaves of all descendants, a br counting
\* as a line feed
RawTextOf(nodes) ==
    IF nodes = <<>> THEN <<>>
    ELSE LET h == Head(nodes)
         IN  (IF isText(h) THEN h.rawText
              ELSE IF isElement(h)
                   THEN IF h.tagName = "br" THEN <<"\n">> ELSE RawTextOf(h.childNodes)
                   ELSE <<>>)
                 \o RawTextOf(Tail(nodes))

\* node?.text ?? ''
TextOf(n) == IF isElement(n) THEN RawTextOf(n.childNodes)
             ELSE IF isText(n) THEN n.rawText ELSE <<>>

----------------------------------------------------------------------------
(* Choice & Answer Extractor *)

\* String.prototype.toLowerCase on the letters of the model's alphabet
LowerChar(c) ==
    CASE c = "T" -> "t" [] c = "R" -> "r" [] c = "U" -> "u" [] c = "E" -> "e"
      [] c = "Y" -> "y" [] c = "S" -> "s" [] c = "A" -> "a" [] c = "B" -> "b"
      [] c = "C" -> "c" [] c = "F" -> "f"
      [] OTHER -> c

ToLowerCase(s) == [i \in 1..Len(s) |-> LowerChar(s[i])]

\* mutant: the empty value (a bare answer attribute) is not a mark
IsMarkedValueNoEmpty(vv) ==
    vv \in {<<"t", "r", "u", "e">>, <<"1">>, <<"y", "e", "s">>}

\* vv === '' || vv === 'true' || vv === '1' || vv === 'yes'
IsMarkedValue(vv) ==
    vv \in {<<>>, <<"t", "r", "u", "e">>, <<"1">>, <<"y", "e", "s">>}

\* whether the choice element carries an answer mark
IsMarked(choice) ==
    LET v == GetAttribute(choice, "answer")
    IN  v # Null /\ IsMarkedValue(Trim(ToLowerCase(v)))

\* answerIndices(choicesNode): 0-based positions of the marked choices
answerIndices(choicesNode) ==
    IF ~isElement(choicesNode) THEN <<>>
    ELSE LET choices == QuerySelectorAll(choicesNode, "choice")
             idx == SelectSeq(Positions(choices), LAMBDA i : IsMarked(choices[i]))
         IN  [j \in 1..Len(idx) |-> idx[j] - 1]

\* answerIndex(choicesNode)
answerIndex(choicesNode) ==
    LET all == answerIndices(choicesNode)
    IN  IF Len(all) > 0 THEN all[1] ELSE -1

----------------------------------------------------------------------------
(* Word-Order Detector *)

CIRCLED_MAP ==
    [c1 |-> 1, c2 |-> 2, c3 |-> 3, c4 |-> 4, c5 |-> 5, c6 |-> 6, c7 |-> 7,
     c8 |-> 8, c9 |-> 9, c10 |-> 10, c11 |-> 11, c12 |-> 12, c13 |-> 13,
     c14 |-> 14, c15 |-> 15, c16 |-> 16, c17 |-> 17, c18 |-> 18, c19 |-> 19,
     c20 |-> 20]

IsCircled(c) == c \in DOMAIN CIRCLED_MAP

DigitValue ==
    [d \in {"0", "1", "2", "3", "4", "5", "6", "7", "8", "9"} |->
        CASE d = "0" -> 0 [] d = "1" -> 1 [] d = "2" -> 2 [] d = "3" -> 3
          [] d = "4" -> 4 [] d = "5" -> 5 [] d = "6" -> 6 [] d = "7" -> 7
          [] d = "8" -> 8 [] d = "9" -> 9]

IsDigit(c) == c \in DOMAIN DigitValue

RECURSIVE NumberOf(_)
\* Number(s) for a string of decimal digits
NumberOf(s) ==
    IF s = <<>> THEN 0
    ELSE 10 * NumberOf(SubSeq(s, 1, Len(s) - 1)) + DigitValue[s[Len(s)]]

\* /^\d+$/
AllDigits(s) == s # <<>> /\ \A i \in 1..Len(s) : IsDigit(s[i])

\* mutant: only the hyphen-minus separates a pair
IsDashHyphenOnly(c) == c = "-"

\* the character class of the pair separator: U+2500, '-', U+30FC, U+2013, U+2014
IsDash(c) == c \in {"box", "-", "ja", "en", "em"}

\* a marker of the pair pattern: one circled glyph, or decimal digits
IsMarker(s) == (Len(s) = 1 /\ IsCircled(s[1])) \/ AllDigits(s)

\* CIRCLED_MAP[m] ?? Number(m)
MarkerValue(m) == IF IsCircled(m[1]) THEN CIRCLED_MAP[m[1]] ELSE NumberOf(m)

\* the places where the pair pattern's separator can stand in t: a dash with
\* a marker, then white space, before it and white space, then a marker, after it
PairSplits(t) ==
    {i \in 1..Len(t) :
        /\ IsDash(t[i])
        /\ IsMarker(TrimRight(SubSeq(t, 1, i - 1)))
        /\ IsMarker(TrimLeft(SubSeq(t, i + 1, Len(t))))}

\* what parsePairChoiceText gives for a text that is no pair (null)
NoPair == <<>>

\* parsePairChoiceText(text): the pair, or NoPair
parsePairChoiceText(text) ==
    LET t == normalizeWs(text)
    IN  IF PairSplits(t) = {} THEN NoPair
        ELSE LET i == CHOOSE j \in PairSplits(t) : TRUE
             IN  <<MarkerValue(TrimRight(SubSeq(t, 1, i - 1))),
                   MarkerValue(TrimLeft(SubSeq(t, i + 1, Len(t))))>>

\* mutant: any circled glyph in the body opens the gate
HasAnyCircled(s) == \E i \in 1..Len(s) : IsCircled(s[i])

\* /[(1)-(5)]/.test(bodyText)
HasLowCircled(s) == \E i \in 1..Len(s) : s[i] \in {"c1", "c2", "c3", "c4", "c5"}

\* isWordOrderQuestion(q)
isWordOrderQuestion(q) ==
    LET body == QuerySelector(q, "body")
        bodyText == normalizeWs(TextOf(body))
        choices == QuerySelector(q, "choices")
        first == TextOf(QuerySelector(choices, "choice"))
    IN  /\ bodyText # <<>>
        /\ HasLowCircled(bodyText)
        /\ parsePairChoiceText(first) # NoPair

----------------------------------------------------------------------------
(* Question and content parsers.  A parsed question or content is kept as  *)
(* its variant tag and the position, among the section's child nodes, of   *)
(* the element it was built from.                                          *)

\* hasBlank(body)
\* mutant: only the children of the body are looked at
hasBlankAmongChildren(body) ==
    isElement(body) /\ \E i \in 1..Len(body.childNodes) :
        isElement(body.childNodes[i]) /\ body.childNodes[i].tagName = "blank"

hasBlank(body) == QuerySelector(body, "blank") # NoNode

\* parseContentUnderstanding(question): the variant it returns
ContentUnderstandingType(question) ==
    LET qType == ToLowerCase(AttrOrEmpty(question, "type"))
        body == QuerySelector(question, "body")
    IN  IF qType = <<"c", "o", "m", "p", "l", "e", "t", "i", "o", "n">> \/ hasBlank(body)
        THEN "SentenceCompletion"
        ELSE "SelectTrueSentence"

parseContentUnderstanding(sec, p) ==
    [type |-> ContentUnderstandingType(sec.childNodes[p]), node |-> p]

parseShortSentenceCloze(sec, p) == [type |-> "ShortSentenceCloze", node |-> p]

\* mutant: the type attribute is compared as written
ContentTypeAsWritten(content) ==
    LET t == AttrOrEmpty(content, "type")
    IN  IF t = <<"e", "m", "a", "i", "l">> THEN "EmailContent"
        ELSE IF t = <<"p", "o", "s", "t", "e", "r">> THEN "PosterContent"
        ELSE "PassageContent"

\* parseContentNode(content): the variant it returns
ContentType(content) ==
    LET t == ToLowerCase(AttrOrEmpty(content, "type"))
    IN  IF t = <<"e", "m", "a", "i", "l">> THEN "EmailContent"
        ELSE IF t = <<"p", "o", "s", "t", "e", "r">> THEN "PosterContent"
        ELSE "PassageContent"

parseContentNode(sec, p) == [type |-> ContentType(sec.childNodes[p]), node |-> p]

\* parseWordOrderSection(questions, hintText): the questions by position
parseWordOrderSection(qs, hintText) ==
    [type |-> "JapaneseTranslateWordOrderCombinationSection",
     hint |-> hintText,
     questions |-> [i \in 1..Len(qs) |->
                      [type |-> "JapaneseTranslateWordOrderCombination", node |-> qs[i]]]]

----------------------------------------------------------------------------
(* Reading Section Grouper: parseReadingSection *)

\* collectDirectChildren(section): positions of the content and question children
collectDirectChildren(sec) ==
    SelectSeq(Positions(sec.childNodes),
              LAMBDA p : /\ isElement(sec.childNodes[p])
                         /\ sec.childNodes[p].tagName \in {"content", "question"})

ContentsOf(sec) ==
    SelectSeq(collectDirectChildren(sec), LAMBDA p : sec.childNodes[p].tagName = "content")

QuestionsOf(sec) ==
    SelectSeq(collectDirectChildren(sec), LAMBDA p : sec.childNodes[p].tagName = "question")

\* (c.getAttribute('index') ?? '').trim()
IndexOf(sec, p) == Trim(AttrOrEmpty(sec.childNodes[p], "index"))

\* the contents that carry a non-empty index, in document order
IndexedContents(sec) == SelectSeq(ContentsOf(sec), LAMBDA p : IndexOf(sec, p) # <<>>)

\* contentOrder: one entry per indexed content
ContentOrder(sec) ==
    LET ic == IndexedContents(sec) IN [i \in 1..Len(ic) |-> IndexOf(sec, ic[i])]

KeysOf(sec) == {ContentOrder(sec)[i] : i \in 1..Len(ContentOrder(sec))}

\* contentByIndex: a later content with the same index replaces the earlier one
ContentByIndex(sec) ==
    LET ic == IndexedContents(sec)
    IN  [k \in KeysOf(sec) |->
            ic[CHOOSE i \in 1..Len(ic) :
                  /\ IndexOf(sec, ic[i]) = k
                  /\ \A j \in 1..Len(ic) : IndexOf(sec, ic[j]) = k => j <= i]]

\* resolveForKey(q): the key, or Null
resolveForKey(sec, p) ==
    LET key == Trim(AttrOrEmpty(sec.childNodes[p], "for"))
        contentOrder == ContentOrder(sec)
    IN  IF key = <<>> THEN Null
        ELSE IF key \in KeysOf(sec) THEN key
        ELSE IF AllDigits(key) /\ NumberOf(key) >= 1 /\ NumberOf(key) <= Len(contentOrder)
             THEN contentOrder[NumberOf(key)]
             ELSE Null

\* mutant: the pointer starts empty instead of at the first indexed content
InitialCurrentKeyNone(sec) == Null

\* the initial value of the current-content pointer
InitialCurrentKey(sec) ==
    IF Len(ContentOrder(sec)) > 0 THEN ContentOrder(sec)[1] ELSE Null

RECURSIVE ScanItems(_, _, _, _)
\* the scan of the direct children: [currentKey, qsByKey] after the items
ScanItems(sec, items, currentKey, qs) ==
    IF items = <<>> THEN qs
    ELSE LET it == Head(items)
             idx == IndexOf(sec, it)
             explicit == resolveForKey(sec, it)
             key == IF explicit # Null THEN explicit ELSE currentKey
         IN  IF sec.childNodes[it].tagName = "content"
             THEN ScanItems(sec, Tail(items),
                            IF idx # <<>> /\ idx \in KeysOf(sec) THEN idx ELSE currentKey, qs)
             ELSE ScanItems(sec, Tail(items), currentKey,
                            IF key # Null /\ key \in DOMAIN qs
                            THEN [qs EXCEPT ![key] = Append(@, it)]
                            ELSE qs)

\* qsByKey after the scan
ScannedQsByKey(sec) ==
    ScanItems(sec, collectDirectChildren(sec), InitialCurrentKey(sec),
              [k \in KeysOf(sec) |-> <<>>])

AllWordOrder(sec, qs) == \A i \in 1..Len(qs) : isWordOrderQuestion(sec.childNodes[qs[i]])

\* hintedText: the contents' normalised texts joined by a space
RECURSIVE JoinWithSpace(_)
JoinWithSpace(ss) ==
    IF ss = <<>> THEN <<>>
    ELSE IF Len(ss) = 1 THEN ss[1]
    ELSE ss[1] \o <<" ">> \o JoinWithSpace(Tail(ss))

HintedText(sec) ==
    LET cs == ContentsOf(sec)
    IN  JoinWithSpace([i \in 1..Len(cs) |-> normalizeWs(TextOf(sec.childNodes[cs[i]]))])

RECURSIVE ExtractWordOrder(_, _, _, _)
\* the loop over contentOrder that emits a word-order section for every key
\* whose questions all pass the gate: [out, qsByKey] after it
ExtractWordOrder(sec, keys, o, qs) ==
    IF keys = <<>> THEN [out |-> o, qsByKey |-> qs]
    ELSE LET k == Head(keys)
         IN  IF qs[k] = <<>> \/ ~AllWordOrder(sec, qs[k])
             THEN ExtractWordOrder(sec, Tail(keys), o, qs)
             ELSE ExtractWordOrder(sec, Tail(keys),
                      Append(o, parseWordOrderSection(qs[k],
                                    normalizeWs(TextOf(sec.childNodes[ContentByIndex(sec)[k]])))),
                      [qs EXCEPT ![k] = <<>>])

\* contentGroups: one group per entry of contentOrder whose key still has questions
ContentGroups(sec, qs) ==
    LET contentOrder == ContentOrder(sec)
        all == [i \in 1..Len(contentOrder) |->
                   [content |-> ContentByIndex(sec)[contentOrder[i]],
                    questions |-> qs[contentOrder[i]]]]
    IN  SelectSeq(all, LAMBDA g : g.questions # <<>>)

\* the content-understanding section built from the groups, if any
GroupSections(sec, groups) ==
    IF Len(groups) >= 2
    THEN <<[type |-> "MultipleReadContentAndAnswerSection",
            parts |-> [i \in 1..Len(groups) |->
                         [type |-> "MultipleReadContentAndAnswerSectionPart",
                          content |-> parseContentNode(sec, groups[i].content),
                          questions |-> [j \in 1..Len(groups[i].questions) |->
                              parseContentUnderstanding(sec, groups[i].questions[j])]]]]>>
    ELSE IF Len(groups) = 1
    THEN <<[type |-> "ReadContentAndAnswerSection",
            contents |-> <<parseContentNode(sec, groups[1].content)>>,
            questions |-> [j \in 1..Len(groups[1].questions) |->
                              parseContentUnderstanding(sec, groups[1].questions[j])]]>>
    ELSE <<>>

\* groupedQuestions: the questions of the groups
GroupedQuestions(groups) ==
    UNION {{groups[i].questions[j] : j \in 1..Len(groups[i].questions)} : i \in 1..Len(groups)}

\* orphan: the questions in no group that name no content
Orphans(sec, groups) ==
    SelectSeq(QuestionsOf(sec),
              LAMBDA q : q \notin GroupedQuestions(groups) /\ resolveForKey(sec, q) = Null)

\* the section built from the orphans, if any
OrphanSections(sec, orphan) ==
    IF orphan = <<>> THEN <<>>
    ELSE IF AllWordOrder(sec, orphan)
    THEN <<parseWordOrderSection(orphan, HintedText(sec))>>
    ELSE <<[type |-> "ShortSentenceClozeSection",
            questions |-> [i \in 1..Len(orphan) |-> parseShortSentenceCloze(sec, orphan[i])]]>>

\* mutant: the word-order branch is taken without asking for a question
NoContentSectionsNoLengthGuard(sec) ==
    LET questions == QuestionsOf(sec)
    IN  IF AllWordOrder(sec, questions)
        THEN <<parseWordOrderSection(questions, <<>>)>>
        ELSE <<[type |-> "ShortSentenceClozeSection",
                questions |-> [i \in 1..Len(questions) |->
                                  parseShortSentenceCloze(sec, questions[i])]]>>

\* the branch of parseReadingSection for a section without content children
NoContentSections(sec) ==
    LET questions == QuestionsOf(sec)
    IN  IF questions # <<>> /\ AllWordOrder(sec, questions)
        THEN <<parseWordOrderSection(questions,
                   JoinWithSpace([i \in 1..Len(questions) |->
                                     TextOf(sec.childNodes[questions[i]])]))>>
        ELSE <<[type |-> "ShortSentenceClozeSection",
                questions |-> [i \in 1..Len(questions) |->
                                  parseShortSentenceCloze(sec, questions[i])]]>>

\* parseReadingSection(section): the sections returned
parseReadingSection(sec) ==
    IF ContentsOf(sec) = <<>>
    THEN NoContentSections(sec)
    ELSE LET wo == ExtractWordOrder(sec, ContentOrder(sec), <<>>, ScannedQsByKey(sec))
             groups == ContentGroups(sec, wo.qsByKey)
         IN  wo.out \o GroupSections(sec, groups) \o OrphanSections(sec, Orphans(sec, groups))

----------------------------------------------------------------------------
(* Inputs of parseReadingSection *)

\* the section children drawn are sequences of at most MaxItems elements
MaxItems == 4

\* the attributes of an element that may carry one attribute
OneAttr(name, v) == IF v = Null THEN NoAttrs ELSE [a \in {name} |-> v]

ChoiceEl(answer, text) == Element("choice", OneAttr("answer", answer), <<TextNode(text)>>)

\* a question whose body lists circled fragments and whose choices are pairs
WordOrderChildren ==
    <<Element("body", NoAttrs, <<TextNode(<<"c1", "a", " ", "c2", "b", " ", "2", "ban", "me">>)>>),
      Element("choices", NoAttrs,
              <<ChoiceEl(Null, <<"c2", "-", "c1">>), ChoiceEl(<<>>, <<"c1", "en", "c2">>)>>)>>

\* an ordinary multiple-choice question
PlainChildren ==
    <<Element("body", NoAttrs, <<TextNode(<<"a", " ", "b">>)>>),
      Element("choices", NoAttrs,
              <<ChoiceEl(<<"t", "r", "u", "e">>, <<"a">>), ChoiceEl(Null, <<"b">>)>>)>>

ContentEl(index) == Element("content", OneAttr("index", index), <<TextNode(<<"a", "\n", "b">>)>>)

QuestionEl(for, children) == Element("question", OneAttr("for", for), children)

ContentIndexValues == {Null, <<"2">>, <<"A", " ">>}

\* the kinds of question drawn: no for attribute, an ordinal, a verbatim index
\* (with trailing white space), and a for value that names no content
QuestionKinds ==
    {QuestionEl(Null, PlainChildren), QuestionEl(Null, WordOrderChildren),
     QuestionEl(<<"1">>, PlainChildren), QuestionEl(<<"2", " ">>, PlainChildren),
     QuestionEl(<<"2", " ">>, WordOrderChildren), QuestionEl(<<"0">>, PlainChildren)}

SectionChildKinds == {ContentEl(i) : i \in ContentIndexValues} \cup QuestionKinds

SectionEl(children) == Element("section", NoAttrs, children)

\* two contents (index 1 and 2) and four questions referencing them two each
TwoByTwoSection ==
    SectionEl(<<Element("content", OneAttr("index", <<"1">>), <<TextNode(<<"a">>)>>),
                Element("content", OneAttr("index", <<"2">>), <<TextNode(<<"b">>)>>),
                TextNode(<<"\n">>),
                QuestionEl(<<"1">>, PlainChildren), QuestionEl(<<"2">>, PlainChildren),
                QuestionEl(<<"1">>, PlainChildren), QuestionEl(<<"2">>, PlainChildren)>>)

\* the sections of at most n children
SectionInputs(n) == {SectionEl(cs) : cs \in SeqsUpTo(SectionChildKinds, n)}

----------------------------------------------------------------------------
(* Inputs of answerIndices and answerIndex *)

\* the choices nodes drawn hold at most MaxChoices choice elements
MaxChoices == 3

\* the values of the answer attribute drawn; Null is a choice without it
AnswerValues ==
    {Null, <<>>, <<" ">>, <<"t", "r", "u", "e">>, <<"T", "R", "U", "E">>,
     <<" ", "Y", "e", "s", "\n">>, <<"1">>, <<"0">>, <<"n", "o">>,
     <<"f", "a", "l", "s", "e">>, <<"1", "1">>}

\* the choices nodes of at most n choices, and the missing node
ChoicesInputs(n) ==
    {Element("choices", NoAttrs, cs) :
        cs \in SeqsUpTo({ChoiceEl(v, <<"a">>) : v \in AnswerValues}, n)}
        \cup {NoNode}

----------------------------------------------------------------------------
(* Inputs of isWordOrderQuestion: the question is written from a body text *)
(* and, when it has choices, a first choice text made of a left token, a   *)
(* separator padded with white space and a right token                     *)

\* the separator is padded with at most MaxPad white space characters a side
MaxPad == 1

GateBodies ==
    {<<>>, <<" ", "\n">>, <<"a", " ", "b">>, <<"a", " ", "c1">>,
     <<"c3", "a", " ", "c5", "b">>, <<"c6", "a", " ", "c20", "b">>}

\* tokens that are markers of the pair pattern, and tokens that are not
GateMarkers == {<<"c1">>, <<"c5">>, <<"c20">>, <<"3">>, <<"1", "0">>}

GateNonMarkers == {<<>>, <<"a">>, <<"c1", "c2">>, <<"3", "a">>}

\* separators: the five characters of the pattern's class, and others
GateSeparators ==
    {<<"-">>, <<"en">>, <<"em">>, <<"ja">>, <<"box">>, <<"~">>, <<>>, <<"-", "-">>}

Pad(n) == [i \in 1..n |-> " "]

\* the gate inputs with at most n white space characters a side
GateInputs(n) ==
    [body : GateBodies, hasChoices : {TRUE}, outer : {0, 1},
     left : GateMarkers \cup GateNonMarkers, padL : 0..n,
     sep : GateSeparators, padR : 0..n,
     right : GateMarkers \cup GateNonMarkers]
    \cup
    [body : GateBodies, hasChoices : {FALSE}, outer : {0}, left : {<<>>}, padL : {0},
     sep : {<<>>}, padR : {0}, right : {<<>>}]

\* the text of the first choice
GateChoiceText(g) ==
    Pad(g.outer) \o g.left \o Pad(g.padL) \o g.sep \o Pad(g.padR) \o g.right \o Pad(g.outer)

\* the question element: a second, ordinary choice follows the first
GateQuestion(g) ==
    Element("question", NoAttrs,
        <<Element("body", NoAttrs, <<TextNode(g.body)>>)>>
        \o (IF g.hasChoices
            THEN <<Element("choices", NoAttrs,
                       <<ChoiceEl(Null, GateChoiceText(g)), ChoiceEl(<<>>, <<"c2", "-", "c1">>)>>)>>
            ELSE <<>>))

----------------------------------------------------------------------------
(* Document Assembler: main.  A path is a string whose characters are file  *)
(* and directory names (one token each) and the separator "/".              *)

\* up to MaxFiles .txt files lie below the input directory
MaxFiles == 3

\* the order of the characters by code unit; for the names used here
\* localeCompare orders them the same way
CharRank ==
    [c \in {"/", "_root", "a", "b", "in", "l1.txt", "out", "r1.txt", "r10.txt", "r2.txt", "x"} |->
        CASE c = "/" -> 0 [] c = "_root" -> 1 [] c = "a" -> 2 [] c = "b" -> 3
          [] c = "in" -> 4 [] c = "l1.txt" -> 5 [] c = "out" -> 6 [] c = "r1.txt" -> 7
          [] c = "r10.txt" -> 8 [] c = "r2.txt" -> 9 [] c = "x" -> 10]

RECURSIVE StrLess(_, _)
\* a < b for strings
StrLess(a, b) ==
    IF b = <<>> THEN FALSE
    ELSE IF a = <<>> THEN TRUE
    ELSE IF Head(a) = Head(b) THEN StrLess(Tail(a), Tail(b))
    ELSE CharRank[Head(a)] < CharRank[Head(b)]

RECURSIVE InsertSorted(_, _)
InsertSorted(s, x) ==
    IF s = <<>> THEN <<x>>
    ELSE IF StrLess(x, Head(s)) THEN <<x>> \o s
    ELSE <<Head(s)>> \o InsertSorted(Tail(s), x)

RECURSIVE SortStrings(_)
\* a sequence of strings in ascending order
SortStrings(s) ==
    IF s = <<>> THEN <<>> ELSE InsertSorted(SortStrings(SubSeq(s, 1, Len(s) - 1)), s[Len(s)])

RECURSIVE SetToSeq(_)
\* the keys of a Map as an array, [...byTest.keys()]; the sort that follows
\* makes the array's order immaterial
SetToSeq(S) ==
    IF S = {} THEN <<>>
    ELSE LET x == CHOOSE y \in S : TRUE IN <<x>> \o SetToSeq(S \ {x})

\* mutant: the files are taken in discovery order
SortFilesNone(files) == files

\* [...files].sort()
SortFiles(files) == SortStrings(files)

\* mutant: the test ids are taken largest first
SortTestIdsDescending(ids) ==
    [i \in 1..Len(ids) |-> SortStrings(ids)[Len(ids) + 1 - i]]

\* [...byTest.entries()].sort(([a], [b]) => a.localeCompare(b)): the sorted keys
SortTestIds(ids) == SortStrings(ids)

RECURSIVE JoinPath(_)
\* the names of a path joined by "/"
JoinPath(names) ==
    IF Len(names) <= 1 THEN names
    ELSE <<Head(names), "/">> \o JoinPath(Tail(names))

RECURSIVE StripTrailingSlashes(_)
StripTrailingSlashes(pth) ==
    IF Len(pth) > 1 /\ pth[Len(pth)] = "/"
    THEN StripTrailingSlashes(SubSeq(pth, 1, Len(pth) - 1))
    ELSE pth

\* the directory part of the pattern path.posix.join(input, '**/*.txt'): join
\* normalises the path
GlobBase(input) == StripTrailingSlashes(input)

\* the path the scan yields for the file with the names sub below the input directory
ScannedPath(input, sub) == GlobBase(input) \o <<"/">> \o JoinPath(sub)

\* String.prototype.startsWith
StartsWith(str, prefix) ==
    Len(prefix) <= Len(str) /\ SubSeq(str, 1, Len(prefix)) = prefix

RECURSIVE Split(_)
\* String.prototype.split('/')
Split(str) ==
    IF \A i \in 1..Len(str) : str[i] # "/" THEN <<str>>
    ELSE LET i == CHOOSE k \in 1..Len(str) : str[k] = "/" /\ \A m \in 1..(k - 1) : str[m] # "/"
         IN  <<SubSeq(str, 1, i - 1)>> \o Split(SubSeq(str, i + 1, Len(str)))

\* relToInput
RelToInput(input, rel) ==
    IF StartsWith(rel, input \o <<"/">>) THEN SubSeq(rel, Len(input) + 2, Len(rel)) ELSE rel

\* the test id of a scanned path, or Null when the path is skipped
TestIdOf(input, rel) ==
    LET parts == Split(RelToInput(input, rel))
    IN  IF parts[1] = <<>> THEN Null
        ELSE IF Len(parts) > 1 THEN parts[1] ELSE <<"_root">>

\* path.join(output, `${testId}.json`), the output directory being "out"
OutPath(testId) == <<"out", "/">> \o testId \o <<".json">>

\* the text of an input file stands for the sections it parses to: files named
\* r* hold reading sections, files named l* a listening section, r10.txt both
SectionCounts(rel) ==
    LET name == rel[Len(rel)]
    IN  CASE name = "r1.txt" -> [reading |-> 2, listening |-> 0]
          [] name = "r2.txt" -> [reading |-> 1, listening |-> 0]
          [] name = "r10.txt" -> [reading |-> 1, listening |-> 1]
          [] OTHER -> [reading |-> 0, listening |-> 1]

\* parseFileToTestSections(text): each section is named by its file and place
parseFileToTestSections(rel) ==
    [readingSections |->
        [i \in 1..SectionCounts(rel).reading |-> [file |-> rel, reading |-> i]],
     listeningSections |->
        [i \in 1..SectionCounts(rel).listening |-> [file |-> rel, listening |-> i]]]

\* no error has been thrown
NoError == [message |-> "", path |-> <<>>]

\* mutant: an existing document never stops the run
RefusesNever(exists, ow) == FALSE

\* (await outFile.exists()) && !overwrite
Refuses(exists, ow) == exists /\ ~ow

\* the values of --input drawn: the directory as the scan reports it, and with
\* a trailing separator
InputArgs == {<<"in">>, <<"in", "/">>}

\* the files that may lie below the input directory
FileCandidates ==
    {<<"r1.txt">>, <<"a", "l1.txt">>, <<"a", "r1.txt">>, <<"a", "r10.txt">>, <<"a", "r2.txt">>,
     <<"b", "r1.txt">>, <<"a", "x", "r2.txt">>}

\* a document left in the output directory by an earlier run
OldDoc ==
    [type |-> "Test",
     readingSections |-> <<[file |-> <<"old">>, reading |-> 1]>>,
     listeningSections |-> <<>>]

\* the output documents that may exist before the run
ExistingOutputs == {OutPath(<<"a">>), OutPath(<<"b">>)}

----------------------------------------------------------------------------
(* Chunk Builder: chunksFromNodes *)

\* mutant: only the ideographs of U+4E00-U+9FFF count as Japanese
IsJapaneseCharIdeographsOnly(c) == c \in {"ban", "me"}

\* RE_JA: the code units U+3040-U+30FF (hiragana "hi" and katakana, which
\* holds the long vowel mark "ja"), U+3400-U+4DBF (an ideograph of extension
\* A, "exta") and U+4E00-U+9FFF ("ban", "me"); an ideograph of extension B
\* ("extb") is a surrogate pair, outside all three
IsJapaneseChar(c) == c \in {"hi", "ja", "ban", "me", "exta"}

isJapanese(text) == \E i \in 1..Len(text) : IsJapaneseChar(text[i])

\* flush(): the chunks after the buffer has been flushed
Flush(chunks, buffer) ==
    IF buffer = <<>> THEN chunks
    ELSE LET normalized == normalizeWs(buffer)
         IN  IF normalized = <<>> THEN chunks
             ELSE Append(chunks,
                         [type |-> IF isJapanese(normalized) THEN "JapaneseChunk"
                                   ELSE "EnglishChunk",
                          text |-> normalized])

\* the chunk of a blank element: id is its index attribute, else its id
\* attribute, and is dropped when it is missing or empty
BlankChunkOf(node) ==
    LET id == IF GetAttribute(node, "index") # Null THEN GetAttribute(node, "index")
              ELSE GetAttribute(node, "id")
    IN  IF id # Null /\ id # <<>> THEN [type |-> "BlankChunk", id |-> id]
        ELSE [type |-> "BlankChunk"]

\* chunks.filter((c) => c.type === 'BlankChunk' || c.text)
KeepChunk(c) == c.type = "BlankChunk" \/ c.text # <<>>

RECURSIVE chunksFromNodes(_)
RECURSIVE ChunkLoop(_, _, _)

\* mutant: the chunks of a nested element are appended without flushing the
\* buffer first
ChunkLoopNoFlush(nodes, chunks, buffer) ==
    IF nodes = <<>> THEN Flush(chunks, buffer)
    ELSE LET node == Head(nodes)
             rest == Tail(nodes)
         IN  IF isText(node) THEN ChunkLoop(rest, chunks, buffer \o node.rawText)
             ELSE IF ~isElement(node) THEN ChunkLoop(rest, chunks, buffer)
             ELSE IF node.tagName = "blank"
                  THEN ChunkLoop(rest, Append(Flush(chunks, buffer), BlankChunkOf(node)), <<>>)
             ELSE IF node.tagName = "br" THEN ChunkLoop(rest, chunks, buffer \o <<" ">>)
             ELSE ChunkLoop(rest, chunks \o chunksFromNodes(node.childNodes), buffer)

\* the loop of chunksFromNodes over the nodes left, with the chunks and the
\* buffer so far, the final flush included
ChunkLoop(nodes, chunks, buffer) ==
    IF nodes = <<>> THEN Flush(chunks, buffer)
    ELSE LET node == Head(nodes)
             rest == Tail(nodes)
         IN  IF isText(node) THEN ChunkLoop(rest, chunks, buffer \o node.rawText)
             ELSE IF ~isElement(node) THEN ChunkLoop(rest, chunks, buffer)
             ELSE IF node.tagName = "blank"
                  THEN ChunkLoop(rest, Append(Flush(chunks, buffer), BlankChunkOf(node)), <<>>)
             ELSE IF node.tagName = "br" THEN ChunkLoop(rest, chunks, buffer \o <<" ">>)
             ELSE LET inner == chunksFromNodes(node.childNodes)
                  IN  IF inner # <<>>
                      THEN ChunkLoop(rest, Flush(chunks, buffer) \o inner, <<>>)
                      ELSE ChunkLoop(rest, chunks, buffer)

\* chunksFromNodes(nodes)
chunksFromNodes(nodes) == SelectSeq(ChunkLoop(nodes, <<>>, <<>>), KeepChunk)

\* textFromNodes(nodes)
textFromNodes(nodes) == [type |-> "Text", chunks |-> chunksFromNodes(nodes)]

----------------------------------------------------------------------------
(* Listening Section Classifier: the script of a Reallife *)

\* the first place of the character c in the string str, 0 when it has none
FirstIndexOf(str, c) ==
    IF \E i \in 1..Len(str) : str[i] = c
    THEN CHOOSE i \in 1..Len(str) : str[i] = c /\ \A k \in 1..(i - 1) : str[k] # c
    ELSE 0

\* mutant: the situation is the parenthesised clause alone
splitSituationScriptClauseOnly(text) ==
    LET close == FirstIndexOf(text, ")")
        after == TrimLeft(SubSeq(text, close + 1, Len(text)))
        dot == FirstIndexOf(after, ".")
    IN  IF text # <<>> /\ text[1] = "(" /\ close >= 3 /\ dot >= 1
        THEN [situation |-> SubSeq(text, 1, close),
              script |-> Trim(SubSeq(after, dot + 1, Len(after)))]
        ELSE [situation |-> <<>>, script |-> text]

\* splitSituationScript(text), the pattern being
\* ^\(([^)]+)\)\s*([^.]*)\.\s*(.*)$
splitSituationScript(text) ==
    LET close == FirstIndexOf(text, ")")
        after == TrimLeft(SubSeq(text, close + 1, Len(text)))
        dot == FirstIndexOf(after, ".")
    IN  IF text # <<>> /\ text[1] = "(" /\ close >= 3 /\ dot >= 1
        THEN [situation |-> Trim(SubSeq(text, 1, close) \o SubSeq(after, 1, dot - 1)),
              script |-> Trim(SubSeq(after, dot + 1, Len(after)))]
        ELSE [situation |-> <<>>, script |-> text]

RECURSIVE PrefixBeforeQuestions(_)
\* the loop of textPrefixBeforeQuestions over the child nodes
PrefixBeforeQuestions(nodes) ==
    IF nodes = <<>> THEN <<>>
    ELSE LET child == Head(nodes)
         IN  IF isElement(child) /\ child.tagName = "question" THEN <<>>
             ELSE (IF isText(child) THEN child.rawText
                   ELSE IF isElement(child) THEN TextOf(child) ELSE <<>>)
                     \o PrefixBeforeQuestions(Tail(nodes))

\* textPrefixBeforeQuestions(node)
textPrefixBeforeQuestions(node) == normalizeWs(PrefixBeforeQuestions(node.childNodes))

\* mutant: the script chunk is built whatever the script text
ScriptChunksAlways(scriptText) == <<[type |-> "EnglishChunk", text |-> scriptText]>>

\* the chunks of a Reallife's script
ScriptChunks(scriptText) ==
    IF scriptText # <<>> THEN <<[type |-> "EnglishChunk", text |-> scriptText]>> ELSE <<>>

\* the script field of the Reallife built from a script content
ReallifeScript(script) ==
    [type |-> "Text",
     chunks |-> ScriptChunks(splitSituationScript(textPrefixBeforeQuestions(script)).script)]

----------------------------------------------------------------------------
(* Word-Order Parser: parseCircledWordList *)

\* the places of the circled glyphs of a string, ascending
CircledHits(str) == SelectSeq(Positions(str), LAMBDA i : IsCircled(str[i]))

\* segment.replace(/[()（）]/g, ' ')
BlankParens(str) ==
    [i \in 1..Len(str) |-> IF str[i] \in {"(", ")", "fo", "fc"} THEN " " ELSE str[i]]

\* whether the pattern (\d+)番目 matches at place i of str
OrdinalAt(str, i) ==
    \E j \in i..Len(str) :
        /\ \A k \in i..j : IsDigit(str[k])
        /\ j + 2 <= Len(str)
        /\ str[j + 1] = "ban"
        /\ str[j + 2] = "me"

\* str.split(/(\d+)番目/)[0]
BeforeOrdinal(str) ==
    IF \E i \in 1..Len(str) : OrdinalAt(str, i)
    THEN LET i == CHOOSE k \in 1..Len(str) :
                      OrdinalAt(str, k) /\ \A m \in 1..(k - 1) : ~OrdinalAt(str, m)
         IN  SubSeq(str, 1, i - 1)
    ELSE str

RECURSIVE InsertByN(_, _)
InsertByN(sorted, w) ==
    IF sorted = <<>> THEN <<w>>
    ELSE IF w.n < Head(sorted).n THEN <<w>> \o sorted
    ELSE <<Head(sorted)>> \o InsertByN(Tail(sorted), w)

\* mutant: the fragments are left in the order of the body text
SortByNNone(ws) == ws

RECURSIVE SortByN(_)
\* out.sort((a, b) => a.n - b.n), a stable sort
SortByN(ws) ==
    IF ws = <<>> THEN <<>> ELSE InsertByN(SortByN(SubSeq(ws, 1, Len(ws) - 1)), ws[Len(ws)])

\* the fragment of the i-th hit: its text, before the sort
FragmentText(bodyText, hits, i) ==
    LET start == hits[i]
        end == IF i + 1 <= Len(hits) THEN hits[i + 1] - 1 ELSE Len(bodyText)
        segment == SubSeq(bodyText, start + 1, end)
        cleaned == Trim(BlankParens(segment))
    IN  Trim(BeforeOrdinal(cleaned))

\* parseCircledWordList(bodyText)
parseCircledWordList(bodyText) ==
    LET hits == CircledHits(bodyText)
        kept == SelectSeq(Positions(hits), LAMBDA i : FragmentText(bodyText, hits, i) # <<>>)
    IN  SortByN([k \in 1..Len(kept) |->
                    [n |-> CIRCLED_MAP[bodyText[hits[kept[k]]]],
                     text |-> normalizeWs(FragmentText(bodyText, hits, kept[k]))]])

\* the words of the question parseWordOrderSection builds
WordOrderWords(q) ==
    LET bodyText == normalizeWs(TextOf(QuerySelector(q, "body")))
        ws == parseCircledWordList(bodyText)
    IN  [i \in 1..Len(ws) |-> [type |-> "EnglishChunk", text |-> ws[i].text]]

----------------------------------------------------------------------------
(* The records the parsers return.  A number is kept as its decimal string, *)
(* which is what it is written as and what it is as a key.                  *)

RECURSIVE StripLeadingZeros(_)
StripLeadingZeros(ds) ==
    IF Len(ds) > 1 /\ Head(ds) = "0" THEN StripLeadingZeros(Tail(ds)) ELSE ds

\* parseQuestionIndex(node): Null for undefined.  Number() skips white space
\* around the digits and gives 0 for white space alone; a text that is no
\* number gives NaN
parseQuestionIndex(node) ==
    LET raw == GetAttribute(node, "index")
    IN  IF raw = Null \/ raw = <<>> THEN Null
        ELSE IF Trim(raw) = <<>> THEN <<"0">>
        ELSE IF AllDigits(Trim(raw)) THEN StripLeadingZeros(Trim(raw))
        ELSE Null

\* choiceList(choicesNode)
choiceList(choicesNode) ==
    IF ~isElement(choicesNode) THEN <<>>
    ELSE LET choices == QuerySelectorAll(choicesNode, "choice")
         IN  [i \in 1..Len(choices) |->
                [type |-> "EnglishPhraseChoice", choice |-> textFromNodes(choices[i].childNodes)]]

\* body?.childNodes ?? []
ChildNodesOf(n) == IF isElement(n) THEN n.childNodes ELSE <<>>

\* parseConversation(content)
parseConversation(content) ==
    LET lines == QuerySelectorAll(content, "line")
    IN  [type |-> "Conversation",
         lines |-> [i \in 1..Len(lines) |->
                      [type |-> "ConversationLine",
                       speaker |-> AttrOrEmpty(lines[i], "speaker"),
                       text |-> chunksFromNodes(lines[i].childNodes)]]]

\* the record parseShortSentenceCloze returns
ShortSentenceClozeOf(question) ==
    [type |-> "ShortSentenceCloze",
     index |-> parseQuestionIndex(question),
     sentence |-> textFromNodes(ChildNodesOf(QuerySelector(question, "body"))),
     choices |-> choiceList(QuerySelector(question, "choices")),
     answerIndex |-> answerIndex(QuerySelector(question, "choices"))]

\* parseSelectTrueSentence(question)
parseSelectTrueSentence(question) ==
    [type |-> "SelectTrueSentence",
     index |-> parseQuestionIndex(question),
     question |-> normalizeWs(TextOf(QuerySelector(question, "body"))),
     choices |-> choiceList(QuerySelector(question, "choices")),
     answerIndex |-> answerIndex(QuerySelector(question, "choices"))]

\* parseSentenceCompletion(question)
parseSentenceCompletion(question) ==
    [type |-> "SentenceCompletion",
     index |-> parseQuestionIndex(question),
     sentence |-> textFromNodes(ChildNodesOf(QuerySelector(question, "body"))),
     choices |-> choiceList(QuerySelector(question, "choices")),
     answerIndex |-> answerIndex(QuerySelector(question, "choices"))]

\* the record parseContentUnderstanding returns
ContentUnderstandingOf(question) ==
    IF ContentUnderstandingType(question) = "SentenceCompletion"
    THEN parseSentenceCompletion(question)
    ELSE parseSelectTrueSentence(question)

\* the record parseContentNode returns
ContentOf(content) ==
    [type |-> ContentType(content), content |-> textFromNodes(content.childNodes)]

\* the choices of a word-order question: the choices that parse as a pair
PairChoices(choicesNode) ==
    LET choiceEls == IF isElement(choicesNode) THEN QuerySelectorAll(choicesNode, "choice")
                     ELSE <<>>
        pairs == [i \in 1..Len(choiceEls) |-> parsePairChoiceText(TextOf(choiceEls[i]))]
        kept == SelectSeq(pairs, LAMBDA x : x # NoPair)
    IN  [i \in 1..Len(kept) |-> [type |-> "MultipleNumberChoice", choices |-> kept[i]]]

\* the question record parseWordOrderSection builds
WordOrderQuestionOf(q) ==
    [type |-> "JapaneseTranslateWordOrderCombination",
     index |-> parseQuestionIndex(q),
     question |-> normalizeWs(TextOf(QuerySelector(q, "body"))),
     words |-> WordOrderWords(q),
     choices |-> PairChoices(QuerySelector(q, "choices")),
     answerIndex |-> answerIndex(QuerySelector(q, "choices"))]

\* the end of the run of digits that starts at place i
RECURSIVE DigitRunEnd(_, _)
DigitRunEnd(text, i) ==
    IF i < Len(text) /\ IsDigit(text[i + 1]) THEN DigitRunEnd(text, i + 1) ELSE i

\* out.add(n): a Set keeps a value once
AddOnce(seen, n) == IF \E k \in 1..Len(seen) : seen[k] = n THEN seen ELSE Append(seen, n)

\* the matches of /(\d+)番目/g from place i on, as the numbers added to out:
\* the digits are taken greedily and a match needs 番目 right after them
RECURSIVE MatchOrdinals(_, _, _)
MatchOrdinals(text, i, seen) ==
    IF i > Len(text) THEN seen
    ELSE IF ~IsDigit(text[i]) THEN MatchOrdinals(text, i + 1, seen)
    ELSE LET j == DigitRunEnd(text, i)
         IN  IF j + 2 <= Len(text) /\ text[j + 1] = "ban" /\ text[j + 2] = "me"
             THEN MatchOrdinals(text, j + 3, AddOnce(seen, NumberOf(SubSeq(text, i, j))))
             ELSE MatchOrdinals(text, i + 1, seen)

RECURSIVE InsertNumber(_, _)
InsertNumber(sorted, n) ==
    IF sorted = <<>> THEN <<n>>
    ELSE IF n < Head(sorted) THEN <<n>> \o sorted
    ELSE <<Head(sorted)>> \o InsertNumber(Tail(sorted), n)

RECURSIVE SortNumbers(_)

\* mutant: the numbers stay in the order they were found in
SortNumbersNone(ns) == ns

\* .sort((a, b) => a - b)
SortNumbers(ns) ==
    IF ns = <<>> THEN <<>> ELSE InsertNumber(SortNumbers(Tail(ns)), Head(ns))

\* detectBlankIndices(text)
detectBlankIndices(text) == SortNumbers(MatchOrdinals(text, 1, <<>>))

\* the blankIndices of parseWordOrderSection
BlankIndicesOf(questions, hintText) ==
    IF detectBlankIndices(hintText) # <<>> THEN detectBlankIndices(hintText)
    ELSE detectBlankIndices(JoinWithSpace([i \in 1..Len(questions) |->
                                              normalizeWs(TextOf(questions[i]))]))

\* the section parseWordOrderSection returns
WordOrderSectionOf(questions, hintText) ==
    [type |-> "JapaneseTranslateWordOrderCombinationSection",
     blankIndices |-> BlankIndicesOf(questions, hintText),
     questions |-> [i \in 1..Len(questions) |-> WordOrderQuestionOf(questions[i])]]

\* parseListeningQuestion(question)
parseListeningQuestion(question) ==
    LET qType == ToLowerCase(AttrOrEmpty(question, "type"))
        body == QuerySelector(question, "body")
        choices == QuerySelector(question, "choices")
        content == QuerySelector(body, "content")
    IN  IF /\ content # NoNode
           /\ ToLowerCase(AttrOrEmpty(content, "type"))
                 = <<"c", "o", "n", "v", "e", "r", "s", "a", "t", "i", "o", "n">>
        THEN [type |-> "SelectResponseByConversation",
              index |-> parseQuestionIndex(question),
              conversation |-> parseConversation(content),
              choices |-> choiceList(choices),
              answerIndex |-> answerIndex(choices)]
        ELSE IF qType = <<"f", "i", "l", "l">>
                  \/ qType = <<"c", "o", "m", "p", "l", "e", "t", "i", "o", "n">>
        THEN [type |-> "ShortSentenceCloze",
              index |-> parseQuestionIndex(question),
              sentence |-> textFromNodes(ChildNodesOf(body)),
              choices |-> choiceList(choices),
              answerIndex |-> answerIndex(choices)]
        ELSE [type |-> "SelectTrueSentence",
              index |-> parseQuestionIndex(question),
              question |-> normalizeWs(TextOf(body)),
              choices |-> choiceList(choices),
              answerIndex |-> answerIndex(choices)]

\* node.querySelectorAll(':scope > tag'): the child elements of that tag
ScopeChildren(node, tag) ==
    SelectSeq(node.childNodes, LAMBDA c : isElement(c) /\ c.tagName = tag)

\* (c.getAttribute('type') ?? '').toLowerCase() === 'script'
IsScript(c) == ToLowerCase(AttrOrEmpty(c, "type")) = <<"s", "c", "r", "i", "p", "t">>

\* the ReallifePart of a question of a script
ReallifePartOf(q) ==
    [type |-> "ReallifePart",
     index |-> parseQuestionIndex(q),
     question |-> normalizeWs(TextOf(QuerySelector(q, "body"))),
     choices |-> choiceList(QuerySelector(q, "choices")),
     answerIndices |-> answerIndices(QuerySelector(q, "choices"))]

\* mutant: the for attribute is compared as written
ExternalQuestionsUntrimmed(sec, idx) ==
    IF idx = <<>> THEN <<>>
    ELSE SelectSeq(ScopeChildren(sec, "question"),
                   LAMBDA q : AttrOrEmpty(q, "for") = idx)

\* qsByFor.get(idx) ?? []: the sibling questions whose trimmed for attribute
\* is idx; a question with an empty or missing for attribute is in no list
ExternalQuestions(sec, idx) ==
    IF idx = <<>> THEN <<>>
    ELSE SelectSeq(ScopeChildren(sec, "question"),
                   LAMBDA q : Trim(AttrOrEmpty(q, "for")) = idx)

\* the Reallife of a script content
ReallifeOf(sec, script) ==
    LET idx == Trim(AttrOrEmpty(script, "index"))
        allQuestions == ScopeChildren(script, "question") \o ExternalQuestions(sec, idx)
    IN  [type |-> "Reallife",
         index |-> Null,
         situation |-> splitSituationScript(textPrefixBeforeQuestions(script)).situation,
         script |-> ReallifeScript(script),
         parts |-> [i \in 1..Len(allQuestions) |-> ReallifePartOf(allQuestions[i])]]

\* `[${c.id ?? ''}]` for a blank chunk, the text of any other chunk
BracketedChunk(c) ==
    IF c.type = "BlankChunk"
    THEN <<"[">> \o (IF "id" \in DOMAIN c THEN c.id ELSE <<>>) \o <<"]">>
    ELSE c.text

\* the question parseListeningSection makes of a parsed question that is no
\* conversation
NormalizedQuestion(q) ==
    IF q.type = "SelectTrueSentence"
    THEN [type |-> "SelectSentenceByEnglishSentence", index |-> q.index,
          question |-> q.question, choices |-> q.choices, answerIndex |-> q.answerIndex]
    ELSE IF q.type = "ShortSentenceCloze"
    THEN [type |-> "SelectSentenceByEnglishSentence", index |-> q.index,
          question |-> normalizeWs(Flatten([i \in 1..Len(q.sentence.chunks) |->
                                              BracketedChunk(q.sentence.chunks[i])])),
          choices |-> q.choices, answerIndex |-> q.answerIndex]
    ELSE [type |-> "SelectSentenceByEnglishSentence", index |-> Null,
          question |-> <<>>, choices |-> q.choices, answerIndex |-> q.answerIndex]

\* mutant: every parsed question is kept as a conversation
convosAll(questions) == questions

\* questions.filter((q) => q.type === 'SelectResponseByConversation')
convos(questions) ==
    SelectSeq(questions, LAMBDA q : q.type = "SelectResponseByConversation")

\* parseListeningSection(section)
parseListeningSection(sec) ==
    LET contents == ScopeChildren(sec, "content")
        scripts == SelectSeq(contents, IsScript)
        elements == ScopeChildren(sec, "question")
        questions == [i \in 1..Len(elements) |-> parseListeningQuestion(elements[i])]
    IN  IF scripts # <<>>
        THEN [type |-> "ReallifeSection",
              questions |-> [i \in 1..Len(scripts) |-> ReallifeOf(sec, scripts[i])]]
        ELSE IF convos(questions) # <<>>
        THEN [type |-> "SelectResponseByConversationSection",
              questions |-> convos(questions)]
        ELSE [type |-> "SelectSentenceByEnglishSentence",
              questions |-> [i \in 1..Len(questions) |-> NormalizedQuestion(questions[i])]]

\* the record of a question kept as variant and position
QuestionRecord(sec, lq) ==
    LET q == sec.childNodes[lq.node]
    IN  CASE lq.type = "ShortSentenceCloze" -> ShortSentenceClozeOf(q)
          [] lq.type = "JapaneseTranslateWordOrderCombination" -> WordOrderQuestionOf(q)
          [] OTHER -> ContentUnderstandingOf(q)

QuestionRecords(sec, lqs) == [i \in 1..Len(lqs) |-> QuestionRecord(sec, lqs[i])]

\* the record of a reading section kept with questions and contents by position
SectionRecord(sec, ls) ==
    CASE ls.type = "MultipleReadContentAndAnswerSection" ->
            [type |-> ls.type,
             parts |-> [i \in 1..Len(ls.parts) |->
                          [type |-> ls.parts[i].type,
                           content |-> ContentOf(sec.childNodes[ls.parts[i].content.node]),
                           questions |-> QuestionRecords(sec, ls.parts[i].questions)]]]
      [] ls.type = "ReadContentAndAnswerSection" ->
            [type |-> ls.type,
             contents |-> [i \in 1..Len(ls.contents) |->
                             ContentOf(sec.childNodes[ls.contents[i].node])],
             questions |-> QuestionRecords(sec, ls.questions)]
      [] ls.type = "JapaneseTranslateWordOrderCombinationSection" ->
            WordOrderSectionOf([i \in 1..Len(ls.questions) |->
                                   sec.childNodes[ls.questions[i].node]], ls.hint)
      [] OTHER -> [type |-> ls.type, questions |-> QuestionRecords(sec, ls.questions)]

\* the reading sections of a section node, as records
ReadingSectionRecords(sec) ==
    LET ls == parseReadingSection(sec)
    IN  [i \in 1..Len(ls) |-> SectionRecord(sec, ls[i])]

----------------------------------------------------------------------------
(* Wordlist source step (steps/4-wordlist-source, kept as                   *)
(* src/unnamed/part_007): processSection and processJSON                    *)

\* the character standing in a string for an exception thrown while it was built
Thrown == "<throw>"

\* the error of processSection's default case, 'Unknown section type: ...'
UnknownSectionType == "<throw: Unknown section type>"

IsThrown(str) == \E k \in 1..Len(str) : str[k] \in {Thrown, UnknownSectionType}

HasThrown(strs) == \E i \in 1..Len(strs) : IsThrown(strs[i])

\* the error that ends the evaluation: the first one raised
FirstThrown(strs) ==
    LET i == CHOOSE n \in 1..Len(strs) :
                 IsThrown(strs[n]) /\ \A m \in 1..(n - 1) : ~IsThrown(strs[m])
        k == CHOOSE n \in 1..Len(strs[i]) : strs[i][n] \in {Thrown, UnknownSectionType}
    IN  <<<<strs[i][k]>>>>

\* the placeholder '__'
Placeholder == <<"_", "_">>

\* stringifyText(text)
stringifyText(text) ==
    IF \E i \in 1..Len(text.chunks) : text.chunks[i].type = "BlankChunk"
    THEN <<Thrown>>
    ELSE Flatten([i \in 1..Len(text.chunks) |-> text.chunks[i].text])

\* chunks.map(blank => fill, other => text).join('')
FillChunks(chunks, Fill(_)) ==
    Flatten([i \in 1..Len(chunks) |->
                IF chunks[i].type = "BlankChunk" THEN Fill(chunks[i]) ELSE chunks[i].text])

\* mutant: a negative answerIndex counts from the end of the choices
OtherChoicesFromEnd(q) ==
    LET answer == IF q.answerIndex < 0 THEN Len(q.choices) + q.answerIndex ELSE q.answerIndex
        idx == SelectSeq(Positions(q.choices), LAMBDA i : i - 1 # answer)
    IN  [j \in 1..Len(idx) |-> stringifyText(q.choices[idx[j]].choice)]

\* the choices for which i === question.answerIndex does not hold, stringified
OtherChoices(q) ==
    LET idx == SelectSeq(Positions(q.choices), LAMBDA i : i - 1 # q.answerIndex)
    IN  [j \in 1..Len(idx) |-> stringifyText(q.choices[idx[j]].choice)]

\* whether some i === question.answerIndex
HasAnswerChoice(q) == q.answerIndex >= 0 /\ q.answerIndex < Len(q.choices)

\* question.index ?? '' (and chunk.id ?? ''), as a key
KeyOf(v) == IF v = Null THEN <<>> ELSE v

\* answerMap after the loop over the questions: a later question with the
\* same key replaces the earlier entry
AnswerMapOf(questions) ==
    LET answered == SelectSeq(questions, HasAnswerChoice)
        keys == {KeyOf(answered[i].index) : i \in 1..Len(answered)}
    IN  [k \in keys |->
            LET last == CHOOSE i \in 1..Len(answered) :
                            /\ KeyOf(answered[i].index) = k
                            /\ \A j \in 1..Len(answered) : KeyOf(answered[j].index) = k => j <= i
            IN  stringifyText(answered[last].choices[answered[last].answerIndex + 1].choice)]

\* answerMap[chunk.id ?? ''] ?? '__'
FromAnswerMap(answerMap, chunk) ==
    LET k == IF "id" \in DOMAIN chunk THEN chunk.id ELSE <<>>
    IN  IF k \in DOMAIN answerMap THEN answerMap[k] ELSE Placeholder

\* the sources pushed for the questions and contents of a content section
ContentSources(questions, contents) ==
    (IF \E k \in DOMAIN AnswerMapOf(questions) : HasThrown(<<AnswerMapOf(questions)[k]>>)
     THEN <<<<Thrown>>>> ELSE <<>>) \o
    Flatten([i \in 1..Len(questions) |-> OtherChoices(questions[i])])
      \o [i \in 1..Len(contents) |->
            FillChunks(contents[i].content.chunks,
                       LAMBDA c : FromAnswerMap(AnswerMapOf(questions), c))]

\* the sources pushed for one question of a ShortSentenceClozeSection
ClozeSources(q) ==
    LET answerText == IF HasAnswerChoice(q) THEN stringifyText(q.choices[q.answerIndex + 1].choice)
                      ELSE Placeholder
    IN  (IF q.sentence.type = "Conversation"
         THEN [i \in 1..Len(q.sentence.lines) |->
                  FillChunks(q.sentence.lines[i].text, LAMBDA c : answerText)]
         ELSE <<FillChunks(q.sentence.chunks, LAMBDA c : answerText)>>)
        \o OtherChoices(q)

\* the sources pushed for one question of a ReallifeSection
ReallifeSources(q) ==
    <<stringifyText(q.script), q.situation>>
      \o Flatten([i \in 1..Len(q.parts) |->
                    <<q.parts[i].question>>
                      \o [j \in 1..Len(q.parts[i].choices) |->
                            stringifyText(q.parts[i].choices[j].choice)]])

\* a section that is no error for the switch: nothing is collected
UnknownSectionSkipped(data) == [returned |-> TRUE, sources |-> <<>>]

\* the default case of the switch: throw new Error('Unknown section type: ...')
UnknownSection(data) == [returned |-> TRUE, sources |-> <<<<UnknownSectionType>>>>]

\* the sources processSection builds for a section, and whether it returns them
SectionSources(data) ==
    CASE data.type = "SelectSentenceByEnglishSentence" ->
            [returned |-> TRUE,
             sources |-> Flatten([i \in 1..Len(data.questions) |->
                            <<data.questions[i].question>>
                              \o [j \in 1..Len(data.questions[i].choices) |->
                                    stringifyText(data.questions[i].choices[j].choice)]])]
      [] data.type = "ReallifeSection" ->
            [returned |-> FALSE,
             sources |-> Flatten([i \in 1..Len(data.questions) |->
                                     ReallifeSources(data.questions[i])])]
      [] data.type = "ShortSentenceClozeSection" ->
            [returned |-> FALSE,
             sources |-> Flatten([i \in 1..Len(data.questions) |->
                                     ClozeSources(data.questions[i])])]
      [] data.type = "MultipleReadContentAndAnswerSection" ->
            [returned |-> TRUE,
             sources |->
                ContentSources(Flatten([i \in 1..Len(data.parts) |-> data.parts[i].questions]),
                               [i \in 1..Len(data.parts) |-> data.parts[i].content])]
      [] data.type = "SelectResponseByConversationSection" ->
            [returned |-> TRUE,
             sources |-> Flatten([i \in 1..Len(data.questions) |->
                            [j \in 1..Len(data.questions[i].conversation.lines) |->
                                stringifyText([type |-> "Text",
                                    chunks |-> data.questions[i].conversation.lines[j].text])]
                              \o OtherChoices(data.questions[i])])]
      [] data.type = "ReadContentAndAnswerSection" ->
            [returned |-> TRUE, sources |-> ContentSources(data.questions, data.contents)]
      [] data.type = "JapaneseTranslateWordOrderCombinationSection" ->
            [returned |-> TRUE,
             sources |-> Flatten([i \in 1..Len(data.questions) |->
                            [j \in 1..Len(data.questions[i].words) |->
                                data.questions[i].words[j].text]])]
      [] OTHER -> UnknownSection(data)

\* processSection(data): the sources returned, the error when it throws
processSection(data) ==
    LET r == SectionSources(data)
    IN  IF HasThrown(r.sources) THEN FirstThrown(r.sources)
        ELSE IF r.returned THEN r.sources ELSE <<>>

\* the replacements of processJSON: typographic quotes, the horizontal bar
\* and the ellipsis become ASCII
ReplaceTypographic(str) ==
    Flatten([i \in 1..Len(str) |->
                CASE str[i] = "rsq" -> <<"'">>
                  [] str[i] \in {"ldq", "rdq"} -> <<"dq">>
                  [] str[i] = "hbar" -> <<"-">>
                  [] str[i] = "ell" -> <<".", ".", ".">>
                  [] OTHER -> <<str[i]>>])

\* processJSON(data)
processJSON(data) ==
    LET sections == data.listeningSections \o data.readingSections
        sources == Flatten([i \in 1..Len(sections) |-> processSection(sections[i])])
    IN  IF HasThrown(sources) THEN FirstThrown(sources)
        ELSE [i \in 1..Len(sources) |-> ReplaceTypographic(Trim(sources[i]))]

----------------------------------------------------------------------------
(* Inputs of the chunk producers *)

\* node lists of at most MaxNodes nodes are drawn for chunksFromNodes
MaxNodes == 3

\* script and body texts are drawn as at most MaxPieces pieces
MaxPieces == 4

\* a comment node
CommentNode == [nodeType |-> 8]

BlankEl(attrs) == Element("blank", attrs, <<>>)

SpanEl(children) == Element("span", NoAttrs, children)

ChunkNodeKinds ==
    {TextNode(<<>>), TextNode(<<" ">>), TextNode(<<"a", " ">>), TextNode(<<"hi">>),
     TextNode(<<"exta">>), TextNode(<<"a", "extb">>), TextNode(<<"ja">>),
     BlankEl(NoAttrs), BlankEl([id |-> <<"a">>]), BlankEl([index |-> <<>>, id |-> <<"a">>]),
     Element("blank", NoAttrs, <<TextNode(<<"b">>)>>),
     Element("br", NoAttrs, <<>>), CommentNode,
     SpanEl(<<>>), SpanEl(<<TextNode(<<"\n">>)>>),
     SpanEl(<<TextNode(<<"a">>), BlankEl([index |-> <<"1">>]), TextNode(<<"hi">>)>>),
     SpanEl(<<SpanEl(<<TextNode(<<"b">>)>>)>>)}

ScriptPieces == {<<"(">>, <<")">>, <<".">>, <<" ">>, <<"a">>}

WordPieces == {<<"c1">>, <<"c2">>, <<"a">>, <<" ">>, <<"(">>, <<"1">>, <<"2", "ban", "me">>}

\* the texts made of at most n pieces
TextsOf(pieces, n) == {Flatten(ps) : ps \in SeqsUpTo(pieces, n)}

\* the inputs of chunksFromNodes: the element holding at most n nodes
NodeInputs(n) ==
    {[kind |-> "nodes", node |-> SpanEl(ns)] : ns \in SeqsUpTo(ChunkNodeKinds, n)}

\* the script contents of at most k pieces, alone or followed by a question
ScriptInputs(k) ==
    {[kind |-> "script",
      node |-> Element("content", [type |-> <<"s", "c", "r", "i", "p", "t">>],
                       <<TextNode(t)>> \o tail)] :
        t \in TextsOf(ScriptPieces, k),
        tail \in {<<>>, <<QuestionEl(Null, PlainChildren), TextNode(<<"b">>)>>}}

\* the word-order questions whose body holds at most k pieces
WordInputs(k) ==
    {[kind |-> "words",
      node |-> Element("question", NoAttrs, <<Element("body", NoAttrs, <<TextNode(t)>>)>>)] :
        t \in TextsOf(WordPieces, k)}

----------------------------------------------------------------------------
(* Inputs of the text functions normalizeWs, parsePairChoiceText and       *)
(* parseCircledWordList                                                    *)

\* the strings given to normalizeWs have at most MaxLen characters
MaxLen == 5

\* the bodies given to parseCircledWordList hold at most MaxFrags marked fragments
MaxFrags == 3

WsChars == {" ", "\n", "isp", "a", "hi"}

WsInputs(n) == {[kind |-> "ws", text |-> t] : t \in SeqsUpTo(WsChars, n)}

\* the tokens a pair text is written from: markers, and tokens that are none
PairMarkers == {<<"c1">>, <<"c3">>, <<"c20">>, <<"1">>, <<"3">>, <<"2", "0">>}

PairNonMarkers == {<<>>, <<"a">>, <<"c1", "c3">>, <<"3", "a">>}

\* a pair text: a left token, a separator padded with at most n white space
\* characters a side, a right token, white space around the whole
PairInputs(n) ==
    [kind : {"pair"}, outer : {0, 1},
     left : PairMarkers \cup PairNonMarkers, padL : 0..n,
     sep : GateSeparators, padR : 0..n,
     right : PairMarkers \cup PairNonMarkers]

\* the text of a pair input
PairText(g) ==
    Pad(g.outer) \o g.left \o Pad(g.padL) \o g.sep \o Pad(g.padR) \o g.right \o Pad(g.outer)

\* the text "plain text"
PlainText == <<"p", "l", "a", "i", "n", " ", "t", "e", "x", "t">>

\* the words of the marked fragments, by marker
FragWord ==
    [c1 |-> <<"t", "o", " ", "t", "h", "e">>, c2 |-> <<"s", "t", "o", "r", "e">>,
     c3 |-> <<"t", "o", "m", "o", "r", "r", "o", "w">>, c12 |-> <<"x", " ", "1">>]

\* what follows the word of a fragment: nothing, or an annotation "2-banme",
\* bare, in ASCII parentheses or in fullwidth parentheses
FragAnnotations ==
    {<<>>, <<" ", "2", "ban", "me">>, <<" ", "(", "2", "ban", "me", ")">>,
     <<"fo", "1", "0", "ban", "me", "fc">>}

\* the text of a marked fragment: its glyph, its word, its annotation, a space
FragText(f) == <<f.marker>> \o FragWord[f.marker] \o f.ann \o <<" ">>

\* the bodies of at most n marked fragments
WordListInputs(n) ==
    {[kind |-> "wordlist", frags |-> fs] :
        fs \in SeqsUpTo([marker : DOMAIN FragWord, ann : FragAnnotations], n)}

\* the body text of a word list input, normalised as parseWordOrderSection does
WordListBody(x) == normalizeWs(Flatten([i \in 1..Len(x.frags) |-> FragText(x.frags[i])]))

----------------------------------------------------------------------------
(* Inputs of the parse step followed by the wordlist source step: a        *)
(* reading section of one optional content and some questions              *)

\* the sections drawn hold at most MaxQuestions questions
MaxQuestions == 2

\* the attributes that are present among two
TwoAttrs(n1, v1, n2, v2) ==
    [a \in {n \in {n1} : v1 # Null} \cup {n \in {n2} : v2 # Null} |->
        IF a = n1 THEN v1 ELSE v2]

Tokyo == <<"T", "o", "k", "y", "o">>

Osaka == <<"O", "s", "a", "k", "a">>

\* a content of type paragraph: "I live in <blank>." with the blank's id
\* attribute id (Null: no attribute)
ParagraphEl(index, id) ==
    Element("content",
            TwoAttrs("type", <<"p", "a", "r", "a", "g", "r", "a", "p", "h">>, "index", index),
            <<TextNode(<<"I", " ", "l", "i", "v", "e", " ", "i", "n", " ">>),
              Element("blank", OneAttr("id", id), <<>>), TextNode(<<".">>)>>)

\* a question with the choices Tokyo and Osaka; marked is the place of the
\* marked choice (0: none), withBlank puts a blank into the body
TokyoQuestionEl(for, index, marked, withBlank) ==
    Element("question", TwoAttrs("for", for, "index", index),
            <<Element("body", NoAttrs,
                      <<TextNode(<<"W", "h", "e", "r", "e", " ">>)>>
                        \o (IF withBlank THEN <<Element("blank", NoAttrs, <<>>)>> ELSE <<>>)
                        \o <<TextNode(<<"?">>)>>),
              Element("choices", NoAttrs,
                      <<Element("choice", OneAttr("answer", IF marked = 1 THEN <<>> ELSE Null),
                                <<TextNode(Tokyo)>>),
                        Element("choice",
                                OneAttr("answer", IF marked = 2 THEN <<"y", "e", "s">> ELSE Null),
                                <<TextNode(Osaka)>>)>>)>>)

FlattenContents ==
    {<<>>, <<ParagraphEl(Null, <<"a">>)>>, <<ParagraphEl(<<"1">>, <<"a">>)>>,
     <<ParagraphEl(<<"1">>, <<"1">>)>>, <<ParagraphEl(<<"1">>, Null)>>}

FlattenQuestions ==
    {TokyoQuestionEl(f, x, m, FALSE) : f \in {Null, <<"1">>}, x \in {Null, <<"1">>},
                                       m \in {0, 1, 2}}
    \cup {TokyoQuestionEl(<<"1">>, <<"a">>, 1, FALSE)}
    \cup {TokyoQuestionEl(Null, Null, m, TRUE) : m \in {0, 1}}

\* the sections of one optional content followed by one to n questions
FlattenInputs(n) ==
    {[kind |-> "flatten", section |-> SectionEl(c \o qs)] :
        c \in FlattenContents, qs \in SeqsUpTo(FlattenQuestions, n) \ {<<>>}}

----------------------------------------------------------------------------
(* Inputs of the question parsers: a question element written from a body  *)
(* and at most MaxChoices choices                                          *)

\* the bodies: a word list, a plain sentence, a sentence with a blank, a
\* sentence with a blank inside an element, a conversation
QuestionBodies ==
    {<<TextNode(<<"c1", "a", " ", "c2", "b">>)>>,
     <<TextNode(<<"a", " ", "b">>)>>,
     <<TextNode(<<"a", " ">>), Element("blank", OneAttr("id", <<"1">>), <<>>)>>,
     <<TextNode(<<"a", " ">>), SpanEl(<<Element("blank", NoAttrs, <<>>)>>)>>,
     <<Element("content",
               OneAttr("type", <<"c", "o", "n", "v", "e", "r", "s", "a", "t", "i", "o", "n">>),
               <<Element("line", OneAttr("speaker", <<"A">>), <<TextNode(<<"a">>)>>)>>)>>}

\* the type attributes: none, fill, completion with a capital, completion
\* after a space
QuestionTypes ==
    {Null, <<"f", "i", "l", "l">>,
     <<"C", "o", "m", "p", "l", "e", "t", "i", "o", "n">>,
     <<" ", "c", "o", "m", "p", "l", "e", "t", "i", "o", "n">>}

\* the choice elements: a pair or a word, marked as the answer or not
QuestionChoiceEls ==
    {ChoiceEl(v, t) : v \in {Null, <<>>}, t \in {<<"c2", "-", "c1">>, <<"1", "en", "2">>, <<"b">>}}

\* the question elements with at most n choices, and without a choices node
QuestionInputs(n) ==
    {Element("question", TwoAttrs("type", t, "index", <<"3">>),
             <<Element("body", NoAttrs, b)>> \o c) :
        t \in QuestionTypes,
        b \in QuestionBodies,
        c \in {<<Element("choices", NoAttrs, cs)>> : cs \in SeqsUpTo(QuestionChoiceEls, n)}
                \cup {<<>>}}

\* the type attributes of the contents drawn; Null is a content without it
ContentTypes ==
    {Null, <<>>, <<"e", "m", "a", "i", "l">>, <<"E", "m", "a", "i", "l">>,
     <<" ", "e", "m", "a", "i", "l">>, <<"p", "o", "s", "t", "e", "r">>,
     <<"p", "a", "r", "a", "g", "r", "a", "p", "h">>, <<"p", "a", "s", "s", "a", "g", "e">>,
     <<"s", "c", "r", "i", "p", "t">>,
     <<"c", "o", "n", "v", "e", "r", "s", "a", "t", "i", "o", "n">>, <<"m", "e", "m", "o">>}

\* the children of the contents drawn: none, a text, a text around a blank,
\* the lines of a conversation
ContentBodies ==
    {<<>>, <<TextNode(<<"a", "\n", "b">>)>>,
     <<TextNode(<<"a", " ">>), Element("blank", OneAttr("id", <<"1">>), <<>>), TextNode(<<"hi">>)>>,
     <<Element("line", OneAttr("speaker", <<"A">>), <<TextNode(<<"a">>)>>),
       Element("line", OneAttr("speaker", <<"B">>), <<TextNode(<<"b">>)>>)>>}

\* the content elements drawn
ContentInputs ==
    {[kind |-> "content", node |-> Element("content", OneAttr("type", t), b)] :
        t \in ContentTypes, b \in ContentBodies}

\* the parsers a question goes through
QuestionParsers == {"cloze", "content", "wordorder", "listening"}

----------------------------------------------------------------------------
(* Inputs of parseListeningSection: a section of at most MaxChildren       *)
(* children, each question carrying its place in the section as its index  *)

\* the sections drawn hold at most MaxChildren children
MaxChildren == 3

IndexDigits == <<"1", "2", "3", "4", "5", "6", "7", "8", "9">>

\* the choices Tokyo and Osaka, marked being the place of the marked one (0: none)
TokyoChoices(marked) ==
    Element("choices", NoAttrs,
            <<Element("choice", OneAttr("answer", IF marked = 1 THEN <<>> ELSE Null),
                      <<TextNode(Tokyo)>>),
              Element("choice", OneAttr("answer", IF marked = 2 THEN <<>> ELSE Null),
                      <<TextNode(Osaka)>>)>>)

\* a conversation of one line inside a body, its type written with a capital
ConversationEl ==
    Element("content",
            OneAttr("type", <<"C", "o", "n", "v", "e", "r", "s", "a", "t", "i", "o", "n">>),
            <<Element("line", OneAttr("speaker", <<"A">>), <<TextNode(<<"h", "i">>)>>)>>)

\* a content inside a body that is no conversation
NoteEl == Element("content", OneAttr("type", <<"n", "o", "t", "e">>), <<TextNode(<<"a">>)>>)

\* the kinds of child: questions (a conversation, a sentence with a blank of
\* type fill, a plain sentence, a body holding a note, a question pointing at
\* content 1), contents (a script holding a question, a passage holding a
\* conversation question) and a text node
ListeningKinds ==
    {[kind |-> "conversation", marked |-> 0], [kind |-> "conversation", marked |-> 2],
     [kind |-> "fill", marked |-> 1], [kind |-> "plain", marked |-> 0],
     [kind |-> "plain", marked |-> 1], [kind |-> "note", marked |-> 2],
     [kind |-> "for", marked |-> 1], [kind |-> "script", marked |-> 0],
     [kind |-> "passage", marked |-> 0], [kind |-> "text", marked |-> 0]}

\* the child of kind k at place i of its section
ListeningChild(k, i) ==
    LET index == <<IndexDigits[i]>>
        question(attrs, body) ==
            Element("question", attrs,
                    <<Element("body", NoAttrs, body), TokyoChoices(k.marked)>>)
        where == <<TextNode(<<"W", "h", "e", "r", "e", "?">>)>>
    IN  CASE k.kind = "conversation" -> question(OneAttr("index", index), <<ConversationEl>>)
          [] k.kind = "fill" ->
                question(TwoAttrs("type", <<"F", "i", "l", "l">>, "index", index),
                         <<TextNode(<<"I", "n", " ">>),
                           Element("blank", OneAttr("id", <<"a">>), <<>>),
                           Element("blank", NoAttrs, <<>>)>>)
          [] k.kind = "plain" -> question(OneAttr("index", index), where)
          [] k.kind = "note" -> question(OneAttr("index", index), <<NoteEl>> \o where)
          [] k.kind = "for" -> question(TwoAttrs("for", <<"1">>, "index", index), where)
          [] k.kind = "script" ->
                Element("content",
                        TwoAttrs("type", <<"s", "c", "r", "i", "p", "t">>, "index", <<"1">>),
                        <<TextNode(<<"(", "A", ")", " ", "B", ".", " ", "C">>),
                          question(OneAttr("index", index), where)>>)
          [] k.kind = "passage" ->
                Element("content", OneAttr("type", <<"p", "a", "s", "s", "a", "g", "e">>),
                        <<question(OneAttr("index", index), <<ConversationEl>>)>>)
          [] OTHER -> TextNode(<<" ", "\n">>)

\* the sections of at most n children
ListeningInputs(n) ==
    {[kind |-> "listening",
      section |-> SectionEl([i \in 1..Len(ks) |-> ListeningChild(ks[i], i)])] :
        ks \in SeqsUpTo(ListeningKinds, n)}

----------------------------------------------------------------------------
(* Inputs of parseListeningSection with scripts: a section of at most      *)
(* MaxParts children, script contents and sibling questions                *)

\* the sections drawn hold at most MaxParts children
MaxParts == 3

\* a question "Where?" with the choices Tokyo and Osaka, marks naming the
\* marked ones
MarkedQuestionEl(attrs, marks) ==
    Element("question", attrs,
            <<Element("body", NoAttrs, <<TextNode(<<"W", "h", "e", "r", "e", "?">>)>>),
              Element("choices", NoAttrs,
                      <<Element("choice", OneAttr("answer", IF 1 \in marks THEN <<>> ELSE Null),
                                <<TextNode(Tokyo)>>),
                        Element("choice", OneAttr("answer", IF 2 \in marks THEN <<>> ELSE Null),
                                <<TextNode(Osaka)>>)>>)>>)

\* the kinds of child: script contents by text, index attribute, whether a
\* question is nested, its marks, and the text after it; sibling
\* questions by for attribute and marks; a content that is no script
ReallifeKinds ==
    {[kind |-> "script", text |-> <<"(", "A", ")", " ", "B", ".", " ", "C">>,
      index |-> <<"1">>, nested |-> FALSE, marks |-> {}, after |-> <<>>],
     [kind |-> "script", text |-> <<"B", ".", " ", "C">>,
      index |-> <<"1">>, nested |-> TRUE, marks |-> {1}, after |-> <<>>],
     [kind |-> "script", text |-> <<"(", "A", ")", " ", "B">>,
      index |-> <<"2">>, nested |-> FALSE, marks |-> {}, after |-> <<>>],
     [kind |-> "script", text |-> <<"(", ")", " ", "B", ".", " ", "C">>,
      index |-> Null, nested |-> TRUE, marks |-> {1, 2}, after |-> <<>>],
     [kind |-> "script", text |-> <<"(", "A", ")", ".", "C", ".", " ", "D">>,
      index |-> <<" ", "1", " ">>, nested |-> FALSE, marks |-> {}, after |-> <<>>],
     [kind |-> "script", text |-> <<"\n", "(", "A", " ", "A", ")", " ", " ", "B", ".", " ">>,
      index |-> <<"1">>, nested |-> TRUE, marks |-> {}, after |-> <<"Z">>],
     [kind |-> "question", for |-> Null, marks |-> {1}],
     [kind |-> "question", for |-> <<"1">>, marks |-> {1, 2}],
     [kind |-> "question", for |-> <<" ", "1">>, marks |-> {}],
     [kind |-> "question", for |-> <<"2">>, marks |-> {2}],
     [kind |-> "question", for |-> <<"3">>, marks |-> {1}],
     [kind |-> "passage"]}

\* the child of kind k at place i of its section: a sibling question carries
\* i as its index, a nested question i followed by 0
ReallifeChild(k, i) ==
    CASE k.kind = "script" ->
            Element("content",
                    TwoAttrs("type", <<"S", "c", "r", "i", "p", "t">>, "index", k.index),
                    <<TextNode(k.text)>>
                      \o (IF ~k.nested THEN <<>>
                          ELSE <<MarkedQuestionEl(OneAttr("index", <<IndexDigits[i], "0">>),
                                                  k.marks)>>)
                      \o (IF k.after = <<>> THEN <<>> ELSE <<TextNode(k.after)>>))
      [] k.kind = "question" ->
            MarkedQuestionEl(TwoAttrs("for", k.for, "index", <<IndexDigits[i]>>), k.marks)
      [] OTHER ->
            Element("content", OneAttr("type", <<"p", "a", "s", "s", "a", "g", "e">>),
                    <<TextNode(<<"(", "A", ")", " ", "B", ".", " ", "C">>)>>)

\* the sections of at most n such children
ReallifeInputs(n) ==
    {[kind |-> "listening", kinds |-> ks,
      section |-> SectionEl([i \in 1..Len(ks) |-> ReallifeChild(ks[i], i)])] :
        ks \in SeqsUpTo(ReallifeKinds, n)}

----------------------------------------------------------------------------
(* Inputs of parseWordOrderSection: a hint text of at most MaxOrdinals      *)
(* pieces and a list of questions that pass the gate                        *)

\* the hint texts drawn are made of at most MaxOrdinals pieces
MaxOrdinals == 3

\* the pieces of a hint text: two ordinals, a digit, a zero, the ordinal
\* suffix alone and a word
OrdinalPieces ==
    {<<"4", "ban", "me">>, <<"2", "ban", "me">>, <<"1">>, <<"0">>, <<"ban", "me">>,
     <<"a", " ">>}

\* a word-order question with that body text
OrdinalQuestionEl(body) ==
    Element("question", NoAttrs,
            <<Element("body", NoAttrs, <<TextNode(body)>>),
              Element("choices", NoAttrs,
                      <<ChoiceEl(Null, <<"c2", "-", "c1">>), ChoiceEl(<<>>, <<"c1", "en", "c2">>)>>)>>)

\* bodies naming the second place, the fourth and the second, and no place
BodySecond == <<"c1", "a", " ", "c2", "b", " ", "2", "ban", "me">>

BodyFourthSecond ==
    <<"c1", "a", " ", "(", "4", "ban", "me", ")", " ", "c2", "b", " ", "0", "2", "ban", "me">>

BodyNoPlace == <<"c1", "a", " ", "c2", "b">>

\* the question lists drawn
OrdinalQuestionLists ==
    {<<OrdinalQuestionEl(BodySecond)>>, <<OrdinalQuestionEl(BodyFourthSecond)>>,
     <<OrdinalQuestionEl(BodyNoPlace)>>,
     <<OrdinalQuestionEl(BodyNoPlace), OrdinalQuestionEl(BodySecond)>>,
     <<OrdinalQuestionEl(BodyFourthSecond), OrdinalQuestionEl(BodySecond)>>,
     <<OrdinalQuestionEl(BodyNoPlace), OrdinalQuestionEl(BodyNoPlace)>>}

\* the hint texts of at most n pieces, each with each question list
WordOrderInputs(n) ==
    [kind : {"wordorder"}, hint : TextsOf(OrdinalPieces, n), questions : OrdinalQuestionLists]

----------------------------------------------------------------------------
(* State of each operation before it is drawn *)

ReadingIdle ==
    /\ section = NoNode
    /\ rpc = "idle"
    /\ qsByKey = <<>>
    /\ out = <<>>

AnswerIdle ==
    /\ aNode = NoNode
    /\ apc = "idle"
    /\ aIndices = <<>>
    /\ aIndex = -1

GateIdle ==
    /\ gateIn = <<>>
    /\ gpc = "idle"
    /\ gateOut = FALSE

MainIdle ==
    /\ argInput = <<>>
    /\ overwrite = FALSE
    /\ disk = {}
    /\ outDocs = <<>>
    /\ toScan = {}
    /\ byTest = <<>>
    /\ mpc = "idle"
    /\ order = <<>>
    /\ pending = <<>>
    /\ readingSections = <<>>
    /\ listeningSections = <<>>
    /\ error = NoError
    /\ log = <<>>

ChunkIdle ==
    /\ cIn = <<>>
    /\ cpc = "idle"
    /\ cOut = <<>>

FnIdle ==
    /\ fnIn = <<>>
    /\ fnPc = "idle"
    /\ fnOut = <<>>

ReadingOthersIdle == AnswerIdle /\ GateIdle /\ MainIdle /\ ChunkIdle /\ FnIdle

AnswerOthersIdle == ReadingIdle /\ GateIdle /\ MainIdle /\ ChunkIdle /\ FnIdle

GateOthersIdle == ReadingIdle /\ AnswerIdle /\ MainIdle /\ ChunkIdle /\ FnIdle

MainOthersIdle == ReadingIdle /\ AnswerIdle /\ GateIdle /\ ChunkIdle /\ FnIdle

ChunkOthersIdle == ReadingIdle /\ AnswerIdle /\ GateIdle /\ MainIdle /\ FnIdle

FnOthersIdle == ReadingIdle /\ AnswerIdle /\ GateIdle /\ MainIdle /\ ChunkIdle

----------------------------------------------------------------------------
(* Specification of parseReadingSection: one section node is drawn and parsed *)

ReadingInit ==
    /\ \/ section \in SectionInputs(MaxItems)
       \/ section = TwoByTwoSection
    /\ rpc = "start"
    /\ qsByKey = <<>>
    /\ out = <<>>
    /\ ReadingOthersIdle

ParseReadingSection ==
    /\ rpc = "start"
    /\ rpc' = "done"
    /\ qsByKey' = ScannedQsByKey(section)
    /\ out' = parseReadingSection(section)
    /\ UNCHANGED <<section, readingOthers>>

ReadingNext == ParseReadingSection

SpecReading == ReadingInit /\ [][ReadingNext]_vars

----------------------------------------------------------------------------
(* Specification of the answer extractor: a choices node is drawn and read *)

AnswerInit ==
    /\ aNode \in ChoicesInputs(MaxChoices)
    /\ apc = "start"
    /\ aIndices = <<>>
    /\ aIndex = -1
    /\ AnswerOthersIdle

ExtractAnswer ==
    /\ apc = "start"
    /\ apc' = "done"
    /\ aIndices' = answerIndices(aNode)
    /\ aIndex' = answerIndex(aNode)
    /\ UNCHANGED <<aNode, answerOthers>>

AnswerNext == ExtractAnswer

SpecAnswer == AnswerInit /\ [][AnswerNext]_vars

----------------------------------------------------------------------------
(* Specification of the word-order gate: a question is drawn and tested *)

GateInit ==
    /\ gateIn \in GateInputs(MaxPad)
    /\ gpc = "start"
    /\ gateOut = FALSE
    /\ GateOthersIdle

TestWordOrderGate ==
    /\ gpc = "start"
    /\ gpc' = "done"
    /\ gateOut' = isWordOrderQuestion(GateQuestion(gateIn))
    /\ UNCHANGED <<gateIn, gateOthers>>

GateNext == TestWordOrderGate

SpecGate == GateInit /\ [][GateNext]_vars

----------------------------------------------------------------------------
(* Specification of main: the files on disk, the documents already in the  *)
(* output directory and the arguments are drawn; the scan yields the files *)
(* in any order; then the test ids are processed one after the other       *)

MainInit ==
    /\ argInput \in InputArgs
    /\ overwrite \in BOOLEAN
    /\ disk \in {d \in SUBSET FileCandidates : Cardinality(d) <= MaxFiles}
    /\ \E ex \in SUBSET ExistingOutputs : outDocs = [pth \in ex |-> OldDoc]
    /\ toScan = disk
    /\ byTest = <<>>
    /\ mpc = "scan"
    /\ order = <<>>
    /\ pending = <<>>
    /\ readingSections = <<>>
    /\ listeningSections = <<>>
    /\ error = NoError
    /\ log = <<>>
    /\ MainOthersIdle

\* the state at the head of one iteration of the loop over the sorted test
\* ids, or the end of the run when none is left
BeginTest(ids) ==
    /\ order' = ids
    /\ readingSections' = <<>>
    /\ listeningSections' = <<>>
    /\ IF ids = <<>>
       THEN mpc' = "done" /\ pending' = <<>>
       ELSE mpc' = "read" /\ pending' = SortFiles(byTest[Head(ids)])

\* one pass of the loop over glob.scan()
ScanFile ==
    /\ mpc = "scan"
    /\ \E f \in toScan :
          LET rel == ScannedPath(argInput, f)
              testId == TestIdOf(argInput, rel)
          IN  /\ toScan' = toScan \ {f}
              /\ byTest' =
                    IF testId = Null THEN byTest
                    ELSE IF testId \in DOMAIN byTest
                         THEN [byTest EXCEPT ![testId] = Append(@, rel)]
                         ELSE byTest @@ (testId :> <<rel>>)
    /\ UNCHANGED <<argInput, overwrite, disk, outDocs, mpc, order, pending,
                   readingSections, listeningSections, error, log>>
    /\ UNCHANGED mainOthers

\* the scan is exhausted: the test ids are sorted and the first one begun
StartLoop ==
    /\ mpc = "scan"
    /\ toScan = {}
    /\ BeginTest(SortTestIds(SetToSeq(DOMAIN byTest)))
    /\ UNCHANGED <<argInput, overwrite, disk, outDocs, toScan, byTest, error, log>>
    /\ UNCHANGED mainOthers

\* one pass of the loop over the sorted files of the current test id
ReadFile ==
    /\ mpc = "read"
    /\ pending # <<>>
    /\ LET parsed == parseFileToTestSections(Head(pending))
       IN  /\ readingSections' = readingSections \o parsed.readingSections
           /\ listeningSections' = listeningSections \o parsed.listeningSections
    /\ pending' = Tail(pending)
    /\ log' = Append(log, [op |-> "read", path |-> Head(pending)])
    /\ UNCHANGED <<argInput, overwrite, disk, outDocs, toScan, byTest, mpc, order, error>>
    /\ UNCHANGED mainOthers

\* the files of the current test id are read and its document exists: throw
RefuseOverwrite ==
    /\ mpc = "read"
    /\ pending = <<>>
    /\ Refuses(OutPath(Head(order)) \in DOMAIN outDocs, overwrite)
    /\ mpc' = "failed"
    /\ error' = [message |-> "Refusing to overwrite", path |-> OutPath(Head(order))]
    /\ UNCHANGED <<argInput, overwrite, disk, outDocs, toScan, byTest, order, pending,
                   readingSections, listeningSections, log>>
    /\ UNCHANGED mainOthers

\* the files of the current test id are read: write its document and go on
WriteTest ==
    /\ mpc = "read"
    /\ pending = <<>>
    /\ ~Refuses(OutPath(Head(order)) \in DOMAIN outDocs, overwrite)
    /\ LET test == [type |-> "Test", readingSections |-> readingSections,
                    listeningSections |-> listeningSections]
           outPath == OutPath(Head(order))
       IN  /\ outDocs' = [pth \in DOMAIN outDocs \cup {outPath} |->
                             IF pth = outPath THEN test ELSE outDocs[pth]]
           /\ log' = Append(log, [op |-> "write", path |-> outPath])
    /\ BeginTest(Tail(order))
    /\ UNCHANGED <<argInput, overwrite, disk, toScan, byTest, error>>
    /\ UNCHANGED mainOthers

MainNext == ScanFile \/ StartLoop \/ ReadFile \/ RefuseOverwrite \/ WriteTest

SpecMain == MainInit /\ [][MainNext]_vars

----------------------------------------------------------------------------
(* Specification of the chunk producers: a node is drawn and its chunks are *)
(* built by chunksFromNodes, as a Reallife script, or as the words of a     *)
(* word-order question                                                      *)

ChunkInit ==
    /\ \/ cIn \in NodeInputs(MaxNodes)
       \/ cIn \in ScriptInputs(MaxPieces)
       \/ cIn \in WordInputs(MaxPieces)
    /\ cpc = "start"
    /\ cOut = <<>>
    /\ ChunkOthersIdle

BuildChunks ==
    /\ cpc = "start"
    /\ cIn.kind = "nodes"
    /\ cpc' = "done"
    /\ cOut' = chunksFromNodes(cIn.node.childNodes)
    /\ UNCHANGED <<cIn, chunkOthers>>

BuildScript ==
    /\ cpc = "start"
    /\ cIn.kind = "script"
    /\ cpc' = "done"
    /\ cOut' = ReallifeScript(cIn.node).chunks
    /\ UNCHANGED <<cIn, chunkOthers>>

BuildWords ==
    /\ cpc = "start"
    /\ cIn.kind = "words"
    /\ cpc' = "done"
    /\ cOut' = WordOrderWords(cIn.node)
    /\ UNCHANGED <<cIn, chunkOthers>>

ChunkNext == BuildChunks \/ BuildScript \/ BuildWords

SpecChunks == ChunkInit /\ [][ChunkNext]_vars

----------------------------------------------------------------------------
(* Specification of the text functions: a text is drawn and normalizeWs is *)
(* applied once and twice, or parsePairChoiceText or parseCircledWordList  *)
(* is applied                                                              *)

TextInit ==
    /\ \/ fnIn \in WsInputs(MaxLen)
       \/ fnIn \in PairInputs(MaxPad)
       \/ fnIn = [kind |-> "plain", text |-> PlainText]
       \/ fnIn \in WordListInputs(MaxFrags)
    /\ fnPc = "start"
    /\ fnOut = <<>>
    /\ FnOthersIdle

NormalizeTwice ==
    /\ fnPc = "start"
    /\ fnIn.kind = "ws"
    /\ fnPc' = "done"
    /\ fnOut' = [once |-> normalizeWs(fnIn.text), twice |-> normalizeWs(normalizeWs(fnIn.text))]
    /\ UNCHANGED <<fnIn, fnOthers>>

ParsePair ==
    /\ fnPc = "start"
    /\ fnIn.kind \in {"pair", "plain"}
    /\ fnPc' = "done"
    /\ fnOut' = parsePairChoiceText(IF fnIn.kind = "pair" THEN PairText(fnIn) ELSE fnIn.text)
    /\ UNCHANGED <<fnIn, fnOthers>>

ParseWordList ==
    /\ fnPc = "start"
    /\ fnIn.kind = "wordlist"
    /\ fnPc' = "done"
    /\ fnOut' = parseCircledWordList(WordListBody(fnIn))
    /\ UNCHANGED <<fnIn, fnOthers>>

TextNext == NormalizeTwice \/ ParsePair \/ ParseWordList

SpecText == TextInit /\ [][TextNext]_vars

----------------------------------------------------------------------------
(* Specification of the parse step followed by the wordlist source step:   *)
(* a reading section is drawn, parsed into a Test document and flattened   *)

WordlistInit ==
    /\ fnIn \in FlattenInputs(MaxQuestions)
    /\ fnPc = "start"
    /\ fnOut = <<>>
    /\ FnOthersIdle

FlattenSection ==
    /\ fnPc = "start"
    /\ fnIn.kind = "flatten"
    /\ fnPc' = "done"
    /\ LET sections == ReadingSectionRecords(fnIn.section)
       IN  fnOut' = [sections |-> sections,
                     sources |-> processJSON([type |-> "Test", readingSections |-> sections,
                                              listeningSections |-> <<>>])]
    /\ UNCHANGED <<fnIn, fnOthers>>

WordlistNext == FlattenSection

SpecWordlist == WordlistInit /\ [][WordlistNext]_vars

----------------------------------------------------------------------------
(* Specification of the run of the wordlist source step: the documents of  *)
(* data/parsed are scanned in the order the file system gives them; each   *)
(* is read, flattened by processJSON and written to data/wordlist-sources. *)
(* An error of processJSON is not caught and ends the run.                 *)

MaxDocs == 3

EnglishText(str) == [type |-> "Text", chunks |-> <<[type |-> "EnglishChunk", text |-> str]>>]

SentenceSection ==
    [type |-> "SelectSentenceByEnglishSentence",
     questions |-> <<[type |-> "SelectSentenceByEnglishSentence", index |-> <<"1">>,
                      question |-> <<"W", "h", "o", "?">>,
                      choices |-> <<[type |-> "Choice", choice |-> EnglishText(<<"T", "o", "m">>)]>>,
                      answerIndex |-> 0]>>]

BlankChoiceSection ==
    [type |-> "SelectSentenceByEnglishSentence",
     questions |-> <<[type |-> "SelectSentenceByEnglishSentence", index |-> <<"1">>,
                      question |-> <<"W", "h", "o", "?">>,
                      choices |-> <<[type |-> "Choice",
                                     choice |-> [type |-> "Text",
                                                 chunks |-> <<[type |-> "BlankChunk"]>>]]>>,
                      answerIndex |-> 0]>>]

ClozeSection ==
    [type |-> "ShortSentenceClozeSection",
     questions |-> <<[type |-> "ShortSentenceCloze", index |-> <<"1">>,
                      sentence |-> [type |-> "Text",
                                    chunks |-> <<[type |-> "EnglishChunk", text |-> <<"I", " ">>],
                                                 [type |-> "BlankChunk"]>>],
                      choices |-> <<[type |-> "Choice", choice |-> EnglishText(<<"g", "o">>)],
                                    [type |-> "Choice", choice |-> EnglishText(<<"a", "m">>)]>>,
                      answerIndex |-> 0]>>]

ReallifeSection ==
    [type |-> "ReallifeSection",
     questions |-> <<[type |-> "Reallife", index |-> Null,
                      situation |-> <<"A", "t">>,
                      script |-> EnglishText(<<"H", "i">>),
                      parts |-> <<[type |-> "ReallifePart", index |-> <<"1">>,
                                   question |-> <<"W", "h", "o", "?">>,
                                   choices |-> <<[type |-> "Choice",
                                                  choice |-> EnglishText(<<"T", "o", "m">>)]>>,
                                   answerIndices |-> <<0>>]>>]>>]

\* a section of a type of the Section union that the switch has no case for
EmailSection == [type |-> "EmailWritingSection"]

TestOf(listening, reading) ==
    [type |-> "Test", listeningSections |-> listening, readingSections |-> reading]

ParsedDocs ==
    {TestOf(<<SentenceSection>>, <<>>),
     TestOf(<<>>, <<EmailSection>>),
     TestOf(<<SentenceSection>>, <<EmailSection>>),
     TestOf(<<SentenceSection>>, <<ClozeSection>>),
     TestOf(<<ReallifeSection>>, <<>>),
     TestOf(<<BlankChoiceSection>>, <<>>)}

\* the files of data/parsed: up to n documents
SourcesInputs(n) ==
    {[kind |-> "sources", docs |-> d] : d \in UNION {[1..k -> ParsedDocs] : k \in 1..n}}

SourcesInit ==
    /\ fnIn \in SourcesInputs(MaxDocs)
    /\ fnPc = "scan"
    /\ fnOut = [written |-> <<>>, remaining |-> DOMAIN fnIn.docs, failed |-> 0, error |-> <<>>]
    /\ FnOthersIdle

\* one round of the loop: the next path of the scan is read, flattened and
\* written; an error leaves the loop and the run with nothing written
ProcessDocument ==
    /\ fnPc = "scan"
    /\ fnIn.kind = "sources"
    /\ \E jsonPath \in fnOut.remaining :
          LET output == processJSON(fnIn.docs[jsonPath])
          IN  IF HasThrown(output)
              THEN /\ fnPc' = "crashed"
                   /\ fnOut' = [fnOut EXCEPT !.failed = jsonPath, !.error = output[1]]
              ELSE /\ fnPc' = "scan"
                   /\ fnOut' = [fnOut EXCEPT
                                   !.written = [p \in DOMAIN fnOut.written \cup {jsonPath} |->
                                                   IF p = jsonPath THEN output
                                                   ELSE fnOut.written[p]],
                                   !.remaining = fnOut.remaining \ {jsonPath}]
    /\ UNCHANGED <<fnIn, fnOthers>>

\* the scan is exhausted
EndOfScan ==
    /\ fnPc = "scan"
    /\ fnIn.kind = "sources"
    /\ fnOut.remaining = {}
    /\ fnPc' = "done"
    /\ UNCHANGED <<fnIn, fnOut, fnOthers>>

SourcesNext == ProcessDocument \/ EndOfScan

SpecSources == SourcesInit /\ [][SourcesNext]_vars

----------------------------------------------------------------------------
(* Specification of the stream of the rakutenAI adapter: the chunks of the *)
(* response and whether its iterator throws after them are drawn; start    *)
(* consumes the chunks one by one, then closes the stream and the thread,  *)
(* or puts the stream in the error state                                   *)

MaxChunks == 4

ResponseChunkTypes ==
    {"ack", "notification", "reasoning-delta", "text-delta", "done", "error"}

ResponseChunk(t) ==
    IF t \in {"reasoning-delta", "text-delta"} THEN [type |-> t, text |-> <<"a">>]
    ELSE [type |-> t]

\* the responses: up to n chunks, after which the iterator ends or throws
StreamInputs(n) ==
    {[kind |-> "stream", chunks |-> [i \in DOMAIN ts |-> ResponseChunk(ts[i])], throws |-> th] :
        ts \in UNION {[1..k -> ResponseChunkTypes] : k \in 0..n}, th \in BOOLEAN}

\* mutant: text-start is enqueued before every text-delta
EnqueuedForRestarting(chunk, isTextStarted) ==
    CASE chunk.type = "ack" -> <<[type |-> "stream-start", warnings |-> <<>>]>>
      [] chunk.type = "reasoning-delta" ->
            <<[type |-> "reasoning-delta", delta |-> chunk.text, id |-> <<>>]>>
      [] chunk.type = "text-delta" ->
            <<[type |-> "text-start", id |-> <<>>],
              [type |-> "text-delta", delta |-> chunk.text, id |-> <<>>]>>
      [] chunk.type = "done" ->
            (IF isTextStarted THEN <<[type |-> "text-end", id |-> <<>>]>> ELSE <<>>)
              \o <<[type |-> "finish", finishReason |-> "stop"]>>
      [] OTHER -> <<>>

\* the parts the body of the loop enqueues for one chunk
EnqueuedFor(chunk, isTextStarted) ==
    CASE chunk.type = "ack" -> <<[type |-> "stream-start", warnings |-> <<>>]>>
      [] chunk.type = "reasoning-delta" ->
            <<[type |-> "reasoning-delta", delta |-> chunk.text, id |-> <<>>]>>
      [] chunk.type = "text-delta" ->
            (IF ~isTextStarted THEN <<[type |-> "text-start", id |-> <<>>]>> ELSE <<>>)
              \o <<[type |-> "text-delta", delta |-> chunk.text, id |-> <<>>]>>
      [] chunk.type = "done" ->
            (IF isTextStarted THEN <<[type |-> "text-end", id |-> <<>>]>> ELSE <<>>)
              \o <<[type |-> "finish", finishReason |-> "stop"]>>
      [] OTHER -> <<>>

StreamInit ==
    /\ fnIn \in StreamInputs(MaxChunks)
    /\ fnPc = "iterate"
    /\ fnOut = [enqueued |-> <<>>, isTextStarted |-> FALSE, consumed |-> 0,
                state |-> "readable", threadClosed |-> FALSE]
    /\ FnOthersIdle

\* one round of for await (const chunk of response)
ConsumeChunk ==
    /\ fnPc = "iterate"
    /\ fnIn.kind = "stream"
    /\ fnOut.consumed < Len(fnIn.chunks)
    /\ LET chunk == fnIn.chunks[fnOut.consumed + 1]
       IN  fnOut' = [fnOut EXCEPT
                       !.enqueued = @ \o EnqueuedFor(chunk, fnOut.isTextStarted),
                       !.isTextStarted = @ \/ chunk.type = "text-delta",
                       !.consumed = @ + 1]
    /\ UNCHANGED <<fnIn, fnPc, fnOthers>>

\* the iterator is exhausted: controller.close(), thread.close()
CloseStream ==
    /\ fnPc = "iterate"
    /\ fnIn.kind = "stream"
    /\ fnOut.consumed = Len(fnIn.chunks)
    /\ ~fnIn.throws
    /\ fnOut' = [fnOut EXCEPT !.state = "closed", !.threadClosed = TRUE]
    /\ fnPc' = "done"
    /\ UNCHANGED <<fnIn, fnOthers>>

\* the iterator throws: catch (err) { controller.error(err) }
ErrorStream ==
    /\ fnPc = "iterate"
    /\ fnIn.kind = "stream"
    /\ fnOut.consumed = Len(fnIn.chunks)
    /\ fnIn.throws
    /\ fnOut' = [fnOut EXCEPT !.state = "errored"]
    /\ fnPc' = "done"
    /\ UNCHANGED <<fnIn, fnOthers>>

StreamNext == ConsumeChunk \/ CloseStream \/ ErrorStream

SpecStream == StreamInit /\ [][StreamNext]_vars

----------------------------------------------------------------------------
(* Specification of the question parsers: a question element is drawn and  *)
(* parsed by one of the parsers; parseWordOrderSection gets only questions *)
(* that pass isWordOrderQuestion                                           *)

QuestionInit ==
    /\ \/ /\ fnIn \in [kind : {"question"}, by : QuestionParsers,
                         node : QuestionInputs(MaxChoices)]
          /\ fnIn.by = "wordorder" => isWordOrderQuestion(fnIn.node)
       \/ fnIn \in ContentInputs
    /\ fnPc = "start"
    /\ fnOut = <<>>
    /\ FnOthersIdle

ParseClozeQuestion ==
    /\ fnPc = "start"
    /\ fnIn.kind = "question" /\ fnIn.by = "cloze"
    /\ fnPc' = "done"
    /\ fnOut' = ShortSentenceClozeOf(fnIn.node)
    /\ UNCHANGED <<fnIn, fnOthers>>

ParseContentQuestion ==
    /\ fnPc = "start"
    /\ fnIn.kind = "question" /\ fnIn.by = "content"
    /\ fnPc' = "done"
    /\ fnOut' = ContentUnderstandingOf(fnIn.node)
    /\ UNCHANGED <<fnIn, fnOthers>>

ParseWordOrderQuestion ==
    /\ fnPc = "start"
    /\ fnIn.kind = "question" /\ fnIn.by = "wordorder"
    /\ fnPc' = "done"
    /\ fnOut' = WordOrderQuestionOf(fnIn.node)
    /\ UNCHANGED <<fnIn, fnOthers>>

ParseListeningQuestion ==
    /\ fnPc = "start"
    /\ fnIn.kind = "question" /\ fnIn.by = "listening"
    /\ fnPc' = "done"
    /\ fnOut' = parseListeningQuestion(fnIn.node)
    /\ UNCHANGED <<fnIn, fnOthers>>

ParseContentNode ==
    /\ fnPc = "start"
    /\ fnIn.kind = "content"
    /\ fnPc' = "done"
    /\ fnOut' = ContentOf(fnIn.node)
    /\ UNCHANGED <<fnIn, fnOthers>>

QuestionNext ==
    \/ ParseClozeQuestion
    \/ ParseContentQuestion
    \/ ParseWordOrderQuestion
    \/ ParseListeningQuestion
    \/ ParseContentNode

SpecQuestion == QuestionInit /\ [][QuestionNext]_vars

----------------------------------------------------------------------------
(* Specification of parseListeningSection: a listening section is drawn    *)
(* and parsed                                                              *)

ListeningInit ==
    /\ \/ fnIn \in ListeningInputs(MaxChildren)
       \/ fnIn \in ReallifeInputs(MaxParts)
    /\ fnPc = "start"
    /\ fnOut = <<>>
    /\ FnOthersIdle

ParseListeningSection ==
    /\ fnPc = "start"
    /\ fnIn.kind = "listening"
    /\ fnPc' = "done"
    /\ fnOut' = parseListeningSection(fnIn.section)
    /\ UNCHANGED <<fnIn, fnOthers>>

ListeningNext == ParseListeningSection

SpecListening == ListeningInit /\ [][ListeningNext]_vars

----------------------------------------------------------------------------
(* Specification of parseWordOrderSection: a hint text and a question list *)
(* are drawn and the section is built                                      *)

WordOrderInit ==
    /\ fnIn \in WordOrderInputs(MaxOrdinals)
    /\ fnPc = "start"
    /\ fnOut = <<>>
    /\ FnOthersIdle

ParseWordOrderSection ==
    /\ fnPc = "start"
    /\ fnIn.kind = "wordorder"
    /\ fnPc' = "done"
    /\ fnOut' = WordOrderSectionOf(fnIn.questions, normalizeWs(fnIn.hint))
    /\ UNCHANGED <<fnIn, fnOthers>>

WordOrderNext == ParseWordOrderSection

SpecWordOrder == WordOrderInit /\ [][WordOrderNext]_vars

----------------------------------------------------------------------------
(* Claims about parseReadingSection *)

Max(S) == CHOOSE x \in S : \A y \in S : y <= x

\* the sequence s as the set of its elements
Range(s) == {s[i] : i \in 1..Len(s)}

\* how often x occurs in the sequence s
Count(s, x) == Cardinality({i \in 1..Len(s) : s[i] = x})

HasContents == ContentsOf(section) # <<>>

\* the trimmed for attribute of the question at position q
C1_For(q) == Trim(AttrOrEmpty(section.childNodes[q], "for"))

\* rule (a): for equals the index of an indexed content
C1_RuleA(q) ==
    /\ C1_For(q) # <<>>
    /\ \E p \in Range(IndexedContents(section)) : IndexOf(section, p) = C1_For(q)

\* rule (b): for is a positive integer not exceeding the number of indexed contents
C1_RuleB(q) ==
    /\ AllDigits(C1_For(q))
    /\ NumberOf(C1_For(q)) \in 1..Len(IndexedContents(section))

\* the indexed contents that precede position q in document order
C1_Preceding(q) == {p \in Range(IndexedContents(section)) : p < q}

\* the key by the priority as the claim words it: (c) is the most recent
\* indexed content before the question
C1_KeyAsClaimed(q) ==
    IF C1_RuleA(q) THEN C1_For(q)
    ELSE IF C1_RuleB(q)
         THEN IndexOf(section, IndexedContents(section)[NumberOf(C1_For(q))])
    ELSE IF C1_Preceding(q) # {} THEN IndexOf(section, Max(C1_Preceding(q)))
    ELSE Null

\* the key by the priority with (c) the pointer as the scan keeps it: the most
\* recent indexed content before the question, or the first indexed content
\* when none comes before it
C1_KeyAmended(q) ==
    IF C1_KeyAsClaimed(q) # Null THEN C1_KeyAsClaimed(q)
    ELSE IF IndexedContents(section) # <<>>
         THEN IndexOf(section, IndexedContents(section)[1])
    ELSE Null

\* the question at position q is in the list of key k, once, and in no other list
C1_AttachedTo(q, k) ==
    \A kk \in DOMAIN qsByKey : Count(qsByKey[kk], q) = IF kk = k THEN 1 ELSE 0

\* C1 (as amended): in a section with content children every question is
\* attached to the key given by (a) its trimmed for attribute when that is a
\* known index, else (b) the n-th indexed content when for is an integer n in
\* range, else (c) the current-content pointer, which is the most recent
\* indexed content before the question or, when none precedes it, the first
\* indexed content; with no indexed content the question is attached to no key.
C1_ResolutionPriority ==
    (rpc = "done" /\ HasContents) =>
        \A q \in Range(QuestionsOf(section)) : C1_AttachedTo(q, C1_KeyAmended(q))

\* C1 as claimed: (c) is the most recent indexed content that precedes the question
C1_AsClaimed ==
    (rpc = "done" /\ HasContents) =>
        \A q \in Range(QuestionsOf(section)) : C1_AttachedTo(q, C1_KeyAsClaimed(q))

\* a parsed section in which one question is attached by each of the rules, the
\* one attached by the pointer standing before every content
C1_Witness ==
    /\ rpc = "done" /\ HasContents
    /\ \E qa, qb, qc \in Range(QuestionsOf(section)) :
          /\ C1_RuleA(qa)
          /\ ~C1_RuleA(qb) /\ C1_RuleB(qb)
          /\ ~C1_RuleA(qc) /\ ~C1_RuleB(qc) /\ C1_Preceding(qc) = {}
          /\ \A q \in {qa, qb, qc} : Count(qsByKey[C1_KeyAmended(q)], q) = 1

\* the positions of the elements a sequence of parsed questions was built from
NodesOf(parsed) == [i \in 1..Len(parsed) |-> parsed[i].node]

\* the question slots of one returned section, in order
SectionQuestionNodes(sct) ==
    IF sct.type = "MultipleReadContentAndAnswerSection"
    THEN Flatten([i \in 1..Len(sct.parts) |-> NodesOf(sct.parts[i].questions)])
    ELSE NodesOf(sct.questions)

\* the question slots of all returned sections, in order
OutQuestionNodes(o) == Flatten([i \in 1..Len(o) |-> SectionQuestionNodes(o[i])])

RECURSIVE Dedupe(_)
\* s without the repetitions of an earlier element
Dedupe(s) ==
    IF s = <<>> THEN <<>>
    ELSE LET init == SubSeq(s, 1, Len(s) - 1)
         IN  IF s[Len(s)] \in Range(init) THEN Dedupe(init)
             ELSE Append(Dedupe(init), s[Len(s)])

\* every content child carries an index and no question passes the gate
C2_Premise ==
    /\ rpc = "done" /\ HasContents
    /\ IndexedContents(section) = ContentsOf(section)
    /\ \A q \in Range(QuestionsOf(section)) : ~isWordOrderQuestion(section.childNodes[q])

\* the indices of the contents that received a question, in first-seen order
C2_Keys == SelectSeq(Dedupe(ContentOrder(section)), LAMBDA k : qsByKey[k] # <<>>)

\* C2: with k the number of contents that received a question, k >= 2 gives
\* exactly one MultipleReadContentAndAnswerSection of k parts in first-seen
\* content order, each part holding the questions of its content in document
\* order, and k = 1 gives exactly one ReadContentAndAnswerSection holding that
\* content and its questions.
C2_ContentGroups ==
    C2_Premise =>
        /\ Len(C2_Keys) >= 2 =>
              /\ Len(out) = 1
              /\ out[1].type = "MultipleReadContentAndAnswerSection"
              /\ Len(out[1].parts) = Len(C2_Keys)
              /\ \A i \in 1..Len(C2_Keys) :
                    /\ i <= Len(out[1].parts)
                    /\ IndexOf(section, out[1].parts[i].content.node) = C2_Keys[i]
                    /\ NodesOf(out[1].parts[i].questions) = qsByKey[C2_Keys[i]]
        /\ Len(C2_Keys) = 1 =>
              /\ Len(out) = 1
              /\ out[1].type = "ReadContentAndAnswerSection"
              /\ Len(out[1].contents) = 1
              /\ IndexOf(section, out[1].contents[1].node) = C2_Keys[1]
              /\ NodesOf(out[1].questions) = qsByKey[C2_Keys[1]]

\* C2 on sections whose contents carry pairwise different indices
C2_DistinctIndices ==
    (C2_Premise /\ Len(Dedupe(ContentOrder(section))) = Len(ContentOrder(section)))
        => C2_ContentGroups

\* the two-by-two example of C2 gives one section of two parts of two questions
C2_Example ==
    (rpc = "done" /\ section = TwoByTwoSection) =>
        /\ Len(out) = 1
        /\ out[1].type = "MultipleReadContentAndAnswerSection"
        /\ Len(out[1].parts) = 2
        /\ NodesOf(out[1].parts[1].questions) = <<4, 6>>
        /\ NodesOf(out[1].parts[2].questions) = <<5, 7>>

\* the keys whose questions, after the scan, are all word-order questions
C3_WordOrderKeys ==
    {k \in DOMAIN qsByKey : qsByKey[k] # <<>> /\ AllWordOrder(section, qsByKey[k])}

\* C3: when all questions attached to a content pass the gate they are emitted
\* as one word-order section and occur in no other returned section.
C3_WordOrderConsumed ==
    (rpc = "done" /\ HasContents) =>
        \A k \in C3_WordOrderKeys :
            /\ \E i \in 1..Len(out) :
                  /\ out[i].type = "JapaneseTranslateWordOrderCombinationSection"
                  /\ NodesOf(out[i].questions) = qsByKey[k]
            /\ \A q \in Range(qsByKey[k]) : Count(OutQuestionNodes(out), q) = 1

\* C3 restricted to the questions that name their content by a for attribute
C3_ExplicitConsumed ==
    (rpc = "done" /\ HasContents) =>
        \A k \in C3_WordOrderKeys :
            (\A q \in Range(qsByKey[k]) : resolveForKey(section, q) # Null) =>
                /\ \E i \in 1..Len(out) :
                      /\ out[i].type = "JapaneseTranslateWordOrderCombinationSection"
                      /\ NodesOf(out[i].questions) = qsByKey[k]
                /\ \A q \in Range(qsByKey[k]) : Count(OutQuestionNodes(out), q) = 1

\* C4 (as amended): a section without content children gives exactly one
\* section: a word-order section holding all the questions when there is at
\* least one question and every question passes the gate, and otherwise a
\* ShortSentenceClozeSection holding all the questions in document order.
C4_NoContent ==
    (rpc = "done" /\ ~HasContents) =>
        /\ Len(out) = 1
        /\ NodesOf(out[1].questions) = QuestionsOf(section)
        /\ out[1].type =
              IF QuestionsOf(section) # <<>> /\ AllWordOrder(section, QuestionsOf(section))
              THEN "JapaneseTranslateWordOrderCombinationSection"
              ELSE "ShortSentenceClozeSection"

\* C4 as claimed: a word-order section whenever every question passes the gate
C4_AsClaimed ==
    (rpc = "done" /\ ~HasContents) =>
        /\ Len(out) = 1
        /\ NodesOf(out[1].questions) = QuestionsOf(section)
        /\ out[1].type =
              IF AllWordOrder(section, QuestionsOf(section))
              THEN "JapaneseTranslateWordOrderCombinationSection"
              ELSE "ShortSentenceClozeSection"

\* a parsed section without contents whose questions do not all pass the gate
C4_Witness ==
    /\ rpc = "done" /\ ~HasContents
    /\ Len(QuestionsOf(section)) >= 3
    /\ \E q \in Range(QuestionsOf(section)) : isWordOrderQuestion(section.childNodes[q])
    /\ \E q \in Range(QuestionsOf(section)) : ~isWordOrderQuestion(section.childNodes[q])
    /\ out[1].type = "ShortSentenceClozeSection"

----------------------------------------------------------------------------
(* Claims about answerIndices and answerIndex *)

\* the choice elements of the node read
C5_Choices == IF aNode = NoNode THEN <<>> ELSE aNode.childNodes

\* the drawn attribute values that are "", "true", "1" or "yes" once trimmed
\* and lower-cased
C5_MarkValues ==
    {<<>>, <<" ">>, <<"t", "r", "u", "e">>, <<"T", "R", "U", "E">>,
     <<" ", "Y", "e", "s", "\n">>, <<"1">>}

C5_Answers == [i \in 1..Len(C5_Choices) |-> GetAttribute(C5_Choices[i], "answer")]

\* C5: answerIndices is the ascending list of the positions of the choices
\* whose answer attribute, trimmed and lower-cased, is "", "true", "1" or
\* "yes"; answerIndex is its first element, or -1 when it is empty or the node
\* is absent; answers ["", absent, "true"] give [0, 2] and 0.
C5_AnswerExtraction ==
    apc = "done" =>
        /\ \A i, j \in 1..Len(aIndices) : i < j => aIndices[i] < aIndices[j]
        /\ \A p \in 0..(Len(C5_Choices) - 1) :
              (p \in Range(aIndices)) <=> (C5_Answers[p + 1] \in C5_MarkValues)
        /\ Range(aIndices) \subseteq 0..(Len(C5_Choices) - 1)
        /\ aIndex = IF aIndices = <<>> THEN -1 ELSE aIndices[1]
        /\ aNode = NoNode => aIndex = -1
        /\ C5_Answers = <<<<>>, Null, <<"t", "r", "u", "e">>>> =>
              aIndices = <<0, 2>> /\ aIndex = 0

\* the example of C5 has been read
C5_Witness ==
    /\ apc = "done"
    /\ C5_Answers = <<<<>>, Null, <<"t", "r", "u", "e">>>>
    /\ aIndices = <<0, 2>>
    /\ aIndex = 0

----------------------------------------------------------------------------
(* Claims about isWordOrderQuestion *)

\* the drawn bodies that hold a glyph in circled 1 .. circled 5
C6_BodiesWithGlyph == {<<"a", " ", "c1">>, <<"c3", "a", " ", "c5", "b">>}

\* the first choice is a marker, a separator of the set D, a marker
C6_IsPair(D) ==
    /\ gateIn.hasChoices
    /\ gateIn.left \in GateMarkers
    /\ gateIn.right \in GateMarkers
    /\ gateIn.sep \in D

\* C6 (as amended): the gate is open exactly when the normalised body holds a
\* glyph in circled 1 .. circled 5 and the first choice's text is two markers
\* separated by one of hyphen, en dash, em dash, the long vowel mark or the
\* box-drawing horizontal U+2500, with optional white space around it.
C6_Gate ==
    gpc = "done" =>
        (gateOut <=> (/\ gateIn.body \in C6_BodiesWithGlyph
                      /\ C6_IsPair({<<"-">>, <<"en">>, <<"em">>, <<"ja">>, <<"box">>})))

\* C6 as claimed: the separator is a hyphen, en dash, em dash or long vowel mark
C6_AsClaimed ==
    gpc = "done" =>
        (gateOut <=> (/\ gateIn.body \in C6_BodiesWithGlyph
                      /\ C6_IsPair({<<"-">>, <<"en">>, <<"em">>, <<"ja">>})))

\* the gate has been found open on a padded pair and closed on an ordinary
\* question whose body holds a circled digit
C6_Witness ==
    /\ gpc = "done"
    /\ gateIn.body \in C6_BodiesWithGlyph
    /\ \/ gateOut /\ gateIn.padL = 1 /\ gateIn.sep = <<"ja">> /\ gateIn.left = <<"1", "0">>
       \/ ~gateOut /\ gateIn.hasChoices /\ gateIn.left = <<"a">>

----------------------------------------------------------------------------
(* Claims about main *)

\* the output path the run is about to write or refuse
C7_OutPath == OutPath(Head(order))

\* the step writes a document
C7_Writes == Len(log') = Len(log) + 1 /\ log'[Len(log')].op = "write"

\* C7: without the overwrite flag no document that exists at a test id's
\* output path is written or modified, and the run fails there with an error
\* naming the path; a document is replaced only with the flag set.
C7_NoOverwrite ==
    [][/\ \A pth \in DOMAIN outDocs :
             (pth \notin DOMAIN outDocs' \/ outDocs'[pth] # outDocs[pth]
                 \/ (C7_Writes /\ log'[Len(log')].path = pth)) => overwrite
       /\ (mpc = "read" /\ pending = <<>> /\ C7_OutPath \in DOMAIN outDocs /\ ~overwrite) =>
             /\ mpc' = "failed"
             /\ error' = [message |-> "Refusing to overwrite", path |-> C7_OutPath]
             /\ outDocs' = outDocs]_vars

\* the run has stopped at an existing document, after writing another one
C7_Witness ==
    /\ mpc = "failed"
    /\ ~overwrite
    /\ error # NoError
    /\ error.path \in DOMAIN outDocs
    /\ outDocs[error.path] = OldDoc
    /\ \E i \in 1..Len(log) : log[i].op = "write"

\* the scanned paths of the files on disk that belong to test id t
C8_FilesOf(t) ==
    {ScannedPath(argInput, f) : f \in {g \in disk : TestIdOf(argInput, ScannedPath(argInput, g)) = t}}

RECURSIVE C8_Ascending(_)
\* the strings of the set S, smallest first
C8_Ascending(S) ==
    IF S = {} THEN <<>>
    ELSE LET least == CHOOSE x \in S : \A y \in S \ {x} : StrLess(x, y)
         IN  <<least>> \o C8_Ascending(S \ {least})

\* the test ids whose document this run has written
C8_Written == {t \in DOMAIN byTest : \E i \in 1..Len(log) : log[i] = [op |-> "write", path |-> OutPath(t)]}

\* C8: the document written for a test id is fixed by the set of its files:
\* its readingSections, and its listeningSections, are the sections of each
\* file concatenated in ascending order of the file names, whatever the order
\* the scan yielded the files in.
C8_OrderIndependent ==
    \A t \in C8_Written :
        LET asc == C8_Ascending(C8_FilesOf(t))
            doc == outDocs[OutPath(t)]
        IN  /\ doc.readingSections =
                  Flatten([i \in 1..Len(asc) |-> parseFileToTestSections(asc[i]).readingSections])
            /\ doc.listeningSections =
                  Flatten([i \in 1..Len(asc) |-> parseFileToTestSections(asc[i]).listeningSections])

\* a document has been written from three files that the scan yielded in an
\* order that is not ascending
C8_Witness ==
    /\ mpc = "done"
    /\ \E t \in C8_Written :
          /\ Len(byTest[t]) >= 3
          /\ StrLess(byTest[t][2], byTest[t][1])
          /\ StrLess(byTest[t][3], byTest[t][2])
          /\ Len(outDocs[OutPath(t)].readingSections) >= 3

\* the test id the claim gives a file: the name of its parent directory, or
\* _root for a file directly in the input directory
C9_ClaimedTestId(f) == IF Len(f) = 1 THEN <<"_root">> ELSE <<f[Len(f) - 1]>>

\* C9: in a run that ends normally every discovered file is listed under
\* exactly one test id, the name of its parent directory or _root, and exactly
\* one document is written per test id, at <output>/<testId>.json.
C9_TestIds ==
    mpc = "done" =>
        /\ \A f \in disk :
              /\ C9_ClaimedTestId(f) \in DOMAIN byTest
              /\ \A t \in DOMAIN byTest :
                    Count(byTest[t], ScannedPath(argInput, f))
                        = IF t = C9_ClaimedTestId(f) THEN 1 ELSE 0
        /\ \A t \in DOMAIN byTest :
              Count(log, [op |-> "write", path |-> OutPath(t)]) = 1
        /\ Cardinality({i \in 1..Len(log) : log[i].op = "write"}) = Cardinality(DOMAIN byTest)

\* C9 for runs whose --input has no trailing separator and whose files lie at
\* most one directory below the input directory
C9_FlatLayout ==
    (argInput = GlobBase(argInput) /\ \A f \in disk : Len(f) <= 2) => C9_TestIds

----------------------------------------------------------------------------
(* Claims about the chunks *)

IsTextChunk(c) == c.type \in {"JapaneseChunk", "EnglishChunk"}

\* C10: every text chunk produced (by chunksFromNodes, as a Reallife script
\* chunk, or as a word of a word-order question) has a non-empty text; only
\* the chunk sequence may be empty.
C10_NonEmptyText ==
    cpc = "done" => \A i \in 1..Len(cOut) : IsTextChunk(cOut[i]) => cOut[i].text # <<>>

\* chunks have been built from nodes that hold a white-space-only text leaf
\* and an element without chunks, and two text chunks came out
C10_Witness ==
    /\ cpc = "done"
    /\ cIn.kind = "nodes"
    /\ \E i \in 1..Len(cIn.node.childNodes) : cIn.node.childNodes[i] = TextNode(<<" ">>)
    /\ \E i \in 1..Len(cIn.node.childNodes) : cIn.node.childNodes[i] = SpanEl(<<TextNode(<<"\n">>)>>)
    /\ Cardinality({i \in 1..Len(cOut) : IsTextChunk(cOut[i])}) >= 2

\* a script whose text ends with the lead sentence gives an empty chunk sequence
C10_EmptyScript ==
    /\ cpc = "done"
    /\ cIn.kind = "script"
    /\ RawTextOf(cIn.node.childNodes) = <<"(", "a", ")", ".">>
    /\ cOut = <<>>

----------------------------------------------------------------------------
(* Claims about the blanks and the types of the chunks *)

\* the blank elements of a node list, in document order
BlankElements(nodes) == SelectSeq(Descendants(nodes), LAMBDA e : e.tagName = "blank")

\* the blank chunks of a chunk sequence, in order
BlankChunks(chunks) == SelectSeq(chunks, LAMBDA c : c.type = "BlankChunk")

\* the chunk the claim gives a blank element: the index attribute if present,
\* otherwise the id attribute if present, no id when it has neither
C11_ClaimedChunk(node) ==
    IF GetAttribute(node, "index") # Null
    THEN [type |-> "BlankChunk", id |-> GetAttribute(node, "index")]
    ELSE IF GetAttribute(node, "id") # Null
         THEN [type |-> "BlankChunk", id |-> GetAttribute(node, "id")]
         ELSE [type |-> "BlankChunk"]

\* C11 (as claimed): chunksFromNodes emits one BlankChunk per blank element,
\* in document order, whose id is the index attribute if present, otherwise
\* the id attribute if present, and is missing only when the element has
\* neither attribute.
C11_BlankIds ==
    (cpc = "done" /\ cIn.kind = "nodes") =>
        LET blanks == BlankElements(cIn.node.childNodes)
        IN  BlankChunks(cOut) = [i \in 1..Len(blanks) |-> C11_ClaimedChunk(blanks[i])]

\* C11 (the part that holds): one BlankChunk is emitted per blank element
C11_OnePerBlank ==
    (cpc = "done" /\ cIn.kind = "nodes") =>
        Len(BlankChunks(cOut)) = Len(BlankElements(cIn.node.childNodes))

\* C11 (its last sentence): a blank whose id attribute is non-empty is never
\* emitted without an id
C11_IdKept ==
    (cpc = "done" /\ cIn.kind = "nodes") =>
        LET blanks == BlankElements(cIn.node.childNodes)
        IN  \A i \in 1..Len(blanks) :
                (GetAttribute(blanks[i], "id") # Null /\ GetAttribute(blanks[i], "id") # <<>>)
                    => (i <= Len(BlankChunks(cOut)) /\ "id" \in DOMAIN BlankChunks(cOut)[i])

\* the blocks the claim names: Hiragana, Katakana, CJK Unified Ideographs
C12_InNamedBlocks(c) == c \in {"hi", "ja", "ban", "me"}

\* the ranges of the pattern: U+3040-U+30FF, U+3400-U+4DBF, U+4E00-U+9FFF
C12_InPatternRanges(c) == c \in {"hi", "ja", "ban", "me", "exta"}

\* every text chunk has a non-empty text and is a JapaneseChunk exactly when
\* its text holds a character satisfying InRange
C12_TypedBy(InRange(_)) ==
    (cpc = "done" /\ cIn.kind = "nodes") =>
        \A i \in 1..Len(cOut) :
            IsTextChunk(cOut[i]) =>
                /\ cOut[i].text # <<>>
                /\ cOut[i].text = normalizeWs(cOut[i].text)
                /\ (cOut[i].type = "JapaneseChunk")
                      <=> (\E k \in 1..Len(cOut[i].text) : InRange(cOut[i].text[k]))

\* C12 (as claimed): a text chunk of chunksFromNodes is a JapaneseChunk if and
\* only if its normalised text holds a code point of the Hiragana, Katakana
\* or CJK Unified Ideographs block, and an EnglishChunk otherwise.
C12_AsClaimed == C12_TypedBy(C12_InNamedBlocks)

\* C12 (amended): a text chunk of chunksFromNodes is a JapaneseChunk if and
\* only if its normalised text holds a code unit in U+3040-U+30FF,
\* U+3400-U+4DBF or U+4E00-U+9FFF, and an EnglishChunk otherwise; its text is
\* never empty.
C12_ChunkTypes == C12_TypedBy(C12_InPatternRanges)

\* chunks of both types have been built, the Japanese one from an ideograph
\* of extension A, an English one from an ideograph of extension B
C12_Witness ==
    /\ cpc = "done"
    /\ cIn.kind = "nodes"
    /\ \E i \in 1..Len(cOut) : cOut[i] = [type |-> "JapaneseChunk", text |-> <<"exta">>]
    /\ \E i \in 1..Len(cOut) : cOut[i] = [type |-> "EnglishChunk", text |-> <<"a", "extb">>]

----------------------------------------------------------------------------
(* Claims about the text functions *)

\* the number a marker stands for
C13_Value(m) ==
    CASE m = <<"c1">> -> 1 [] m = <<"1">> -> 1 [] m = <<"c3">> -> 3 [] m = <<"3">> -> 3
      [] m = <<"c20">> -> 20 [] m = <<"2", "0">> -> 20

\* the pair of a text written as left token, separator, right token, when the
\* separators are the characters of D; NoPair for every other text
C13_Expected(g, D) ==
    IF g.left \in PairMarkers /\ g.right \in PairMarkers /\ g.sep \in D
    THEN <<C13_Value(g.left), C13_Value(g.right)>>
    ELSE NoPair

\* what the parser gave is what is expected with the separators D
C13_For(D) ==
    /\ (fnPc = "done" /\ fnIn.kind = "pair") => fnOut = C13_Expected(fnIn, D)
    /\ (fnPc = "done" /\ fnIn.kind = "plain") => fnOut = NoPair

\* C13 (as claimed): parsePairChoiceText returns the two marker values for a
\* text of two markers separated by one dash-family character (hyphen, en
\* dash, em dash or the long vowel mark) with optional spaces, and null for
\* every other text.
C13_AsClaimed == C13_For({<<"-">>, <<"en">>, <<"em">>, <<"ja">>})

\* C13 (amended): parsePairChoiceText returns the two marker values for a
\* text of two markers (circled glyph or decimal digits, a glyph and the
\* digits of the same number giving the same value) separated by one of
\* hyphen, en dash, em dash, the long vowel mark or the box-drawing
\* horizontal U+2500, with optional spaces, and null for every other text.
C13_PairParser == C13_For({<<"-">>, <<"en">>, <<"em">>, <<"ja">>, <<"box">>})

\* the pair of circled 3, a padded en dash, circled 1 has been parsed to [3, 1]
C13_Witness ==
    /\ fnPc = "done"
    /\ fnIn.kind = "pair"
    /\ fnIn.left = <<"c3">> /\ fnIn.sep = <<"en">> /\ fnIn.right = <<"c1">>
    /\ fnIn.padL = 1 /\ fnIn.padR = 1
    /\ fnOut = <<3, 1>>

\* the number of a circled marker
C14_Number == [c1 |-> 1, c2 |-> 2, c3 |-> 3, c12 |-> 12]

\* C14: parseCircledWordList returns one fragment per marked fragment of the
\* body, ascending by the number of the marker, each with the word of its
\* marker, the trailing "N-banme" annotation and the parentheses removed; the
\* result depends only on the fragments, not on their order in the body.
C14_SortedWords ==
    (fnPc = "done" /\ fnIn.kind = "wordlist") =>
        /\ Len(fnOut) = Len(fnIn.frags)
        /\ \A i, j \in 1..Len(fnOut) : i < j => fnOut[i].n <= fnOut[j].n
        /\ \A i \in 1..Len(fnOut) :
              \E m \in DOMAIN FragWord :
                  fnOut[i] = [n |-> C14_Number[m], text |-> FragWord[m]]
        /\ \A m \in DOMAIN FragWord :
              Cardinality({i \in 1..Len(fnOut) : fnOut[i].n = C14_Number[m]})
                  = Cardinality({i \in 1..Len(fnIn.frags) : fnIn.frags[i].marker = m})

\* the fragments stood in the order 3, 1, 2, two of them annotated, and came
\* out in the order 1, 2, 3
C14_Witness ==
    /\ fnPc = "done"
    /\ fnIn.kind = "wordlist"
    /\ Len(fnIn.frags) = 3
    /\ fnIn.frags[1].marker = "c3" /\ fnIn.frags[2].marker = "c1" /\ fnIn.frags[3].marker = "c2"
    /\ fnIn.frags[1].ann = <<" ", "(", "2", "ban", "me", ")">>
    /\ fnIn.frags[3].ann = <<"fo", "1", "0", "ban", "me", "fc">>
    /\ fnOut = <<[n |-> 1, text |-> FragWord["c1"]], [n |-> 2, text |-> FragWord["c2"]],
                 [n |-> 3, text |-> FragWord["c3"]]>>

\* C17: normalizeWs is idempotent, and its result has no white space at
\* either end and no two adjacent white space characters.
C17_Idempotent ==
    (fnPc = "done" /\ fnIn.kind = "ws") =>
        /\ fnOut.twice = fnOut.once
        /\ fnOut.once # <<>> => (~IsWs(fnOut.once[1]) /\ ~IsWs(fnOut.once[Len(fnOut.once)]))
        /\ \A i \in 1..(Len(fnOut.once) - 1) : ~(IsWs(fnOut.once[i]) /\ IsWs(fnOut.once[i + 1]))

\* a text with a run of three different white space characters inside has
\* been normalised to one with a single space
C17_Witness ==
    /\ fnPc = "done"
    /\ fnIn.kind = "ws"
    /\ fnIn.text = <<"a", "\n", "isp", " ", "hi">>
    /\ fnOut.once = <<"a", " ", "hi">>

\* a text with white space at both ends has been normalised
C17_WitnessEnds ==
    /\ fnPc = "done"
    /\ fnIn.kind = "ws"
    /\ fnIn.text = <<"isp", "a", " ", " ", "\n">>
    /\ fnOut.once = <<"a">>

----------------------------------------------------------------------------
(* Claims about the wordlist source step *)

\* the sources processSection has pushed for the s-th parsed section when
\* its switch ends
C15_Built(s) == SectionSources(fnOut.sections[s]).sources

\* the sources processSection returns for the s-th parsed section
C15_Returned(s) == processSection(fnOut.sections[s])

\* the questions of a section record, in order
C15_QuestionsOf(sec) ==
    IF sec.type = "MultipleReadContentAndAnswerSection"
    THEN Flatten([i \in 1..Len(sec.parts) |-> sec.parts[i].questions])
    ELSE sec.questions

\* the contents of a section record, in order
C15_ContentsOf(sec) ==
    IF sec.type = "MultipleReadContentAndAnswerSection"
    THEN [i \in 1..Len(sec.parts) |-> sec.parts[i].content]
    ELSE IF sec.type = "ReadContentAndAnswerSection" THEN sec.contents
    ELSE <<>>

\* a chunk sequence with every blank rendered as the placeholder
C15_Unfilled(chunks) ==
    Flatten([i \in 1..Len(chunks) |->
                IF chunks[i].type = "BlankChunk" THEN <<"_", "_">> ELSE chunks[i].text])

\* how many entries of the sequence strs equal str
C15_Occurrences(strs, str) == Cardinality({i \in 1..Len(strs) : strs[i] = str})

C15_WitnessCloze ==
    /\ fnPc = "done"
    /\ fnIn.kind = "flatten"
    /\ Len(fnOut.sections) = 1
    /\ fnOut.sections[1].type = "ShortSentenceClozeSection"
    /\ fnOut.sections[1].questions[1].answerIndex = -1
    /\ C15_Built(1) = <<<<"W", "h", "e", "r", "e", "_", "_", "?">>, Tokyo, Osaka>>

\* the section of C16: one content of type paragraph holding a blank with id
\* a, and one question with for = 1 whose marked choice is Tokyo
C16_Section(sec) ==
    /\ Len(sec.childNodes) = 2
    /\ sec.childNodes[1].tagName = "content"
    /\ QuerySelector(sec.childNodes[1], "blank").attrs = [id |-> <<"a">>]
    /\ sec.childNodes[2].tagName = "question"
    /\ GetAttribute(sec.childNodes[2], "for") = <<"1">>
    /\ answerIndex(QuerySelector(sec.childNodes[2], "choices")) = 0

\* the content string with the text str at the blank's position; the chunk
\* before the blank is normalised, so no space is left before it
C16_ContentWith(str) == <<"I", " ", "l", "i", "v", "e", " ", "i", "n">> \o str \o <<".">>

\* C16 (as claimed): for the section of C16, the flattened sources hold the
\* content string with Tokyo at the blank's position.
C16_BlankResolved ==
    (fnPc = "done" /\ fnIn.kind = "flatten" /\ C16_Section(fnIn.section)) =>
        \E i \in 1..Len(fnOut.sources) : fnOut.sources[i] = C16_ContentWith(Tokyo)

\* what happens instead: the sources hold no content string with Tokyo; they
\* are empty, or hold the content string with the placeholder
C16_BlankUnresolved ==
    (fnPc = "done" /\ fnIn.kind = "flatten" /\ C16_Section(fnIn.section)) =>
        \/ fnOut.sources = <<>>
        \/ fnOut.sources = <<Osaka, C16_ContentWith(<<"_", "_">>)>>

\* the blank is resolved when its id is the number of the question's index
\* attribute and the content carries that index
C16_ResolvedByIndex ==
    /\ fnPc = "done"
    /\ fnIn.kind = "flatten"
    /\ Len(fnIn.section.childNodes) = 2
    /\ fnIn.section.childNodes[1].tagName = "content"
    /\ QuerySelector(fnIn.section.childNodes[1], "blank").attrs = [id |-> <<"1">>]
    /\ GetAttribute(fnIn.section.childNodes[2], "index") = <<"1">>
    /\ fnOut.sources = <<Osaka, C16_ContentWith(Tokyo)>>

----------------------------------------------------------------------------
(* Claims about the questions' answerIndex *)

\* the choice elements of the question drawn
C18_ChoiceEls == QuerySelectorAll(QuerySelector(fnIn.node, "choices"), "choice")

\* the places of the choice elements marked as the answer
C18_Marked == {i \in 1..Len(C18_ChoiceEls) : GetAttribute(C18_ChoiceEls[i], "answer") = <<>>}

\* the choice a question of the variant drawn builds from a choice element
C18_ChoiceOf(el) ==
    IF fnIn.by = "wordorder"
    THEN [type |-> "MultipleNumberChoice", choices |-> parsePairChoiceText(TextOf(el))]
    ELSE [type |-> "EnglishPhraseChoice", choice |-> textFromNodes(el.childNodes)]

\* answerIndex is -1, or the place in the emitted choices of the choice built
\* from the first marked choice element
C18_InRange ==
    \/ fnOut.answerIndex = -1
    \/ /\ fnOut.answerIndex >= 0
       /\ fnOut.answerIndex < Len(fnOut.choices)
       /\ C18_Marked # {}
       /\ fnOut.choices[fnOut.answerIndex + 1]
             = C18_ChoiceOf(C18_ChoiceEls[CHOOSE i \in C18_Marked : \A k \in C18_Marked : i <= k])

\* C18 (as claimed): for every question emitted, of every variant, answerIndex
\* is -1 or an index into the emitted choices, where the choice built from
\* the first marked choice element stands.
C18_AnswerInRange == (fnPc = "done" /\ fnIn.kind = "question") => C18_InRange

\* C18 (the part that holds): the same for every variant but the word-order
\* question
C18_OtherVariants ==
    (fnPc = "done" /\ fnIn.kind = "question" /\ fnIn.by # "wordorder") => C18_InRange

\* a word-order question whose second choice is no pair and whose third
\* choice is marked: answerIndex 2 with two choices emitted
C18_OutOfRange ==
    /\ fnPc = "done"
    /\ fnIn.kind = "question" /\ fnIn.by = "wordorder"
    /\ Len(C18_ChoiceEls) = 3
    /\ fnOut.answerIndex = 2
    /\ Len(fnOut.choices) = 2

----------------------------------------------------------------------------
(* Claims about the partition of the questions *)

\* C19 (as claimed): each direct question child of the section stands in
\* exactly one question slot of the sections returned.
C19_Partition ==
    rpc = "done" =>
        \A q \in Range(QuestionsOf(section)) : Count(OutQuestionNodes(out), q) = 1

\* C19 (the part that holds): no question is dropped, and every question
\* slot holds a direct question child
C19_NoneDropped ==
    rpc = "done" =>
        /\ \A q \in Range(QuestionsOf(section)) : Count(OutQuestionNodes(out), q) >= 1
        /\ Range(OutQuestionNodes(out)) \subseteq Range(QuestionsOf(section))

\* C19 on the sections whose indexed contents carry distinct indices and
\* where no word-order question is attached by the current-content pointer
C19_PartitionOtherwise ==
    (/\ rpc = "done"
     /\ Len(ContentOrder(section)) = Cardinality(KeysOf(section))
     /\ \A k \in C3_WordOrderKeys :
           \A q \in Range(qsByKey[k]) : resolveForKey(section, q) # Null) =>
        \A q \in Range(QuestionsOf(section)) : Count(OutQuestionNodes(out), q) = 1

----------------------------------------------------------------------------
(* Claims about parseListeningSection *)

\* the direct question children of the section drawn, in document order
C20_Questions == ScopeChildren(fnIn.section, "question")

\* the question's body holds a content, the first of which is a conversation
C20_ConversationBased(q) ==
    LET content == QuerySelector(QuerySelector(q, "body"), "content")
    IN  /\ content # NoNode
        /\ ToLowerCase(AttrOrEmpty(content, "type"))
              = <<"c", "o", "n", "v", "e", "r", "s", "a", "t", "i", "o", "n">>

\* a section without script content has been parsed
C20_Parsed ==
    /\ fnPc = "done"
    /\ fnIn.kind = "listening"
    /\ \A c \in Range(ScopeChildren(fnIn.section, "content")) : ~IsScript(c)

\* the question record r keeps index, choices and answerIndex of element q
C20_Keeps(r, q) ==
    /\ r.index = parseQuestionIndex(q)
    /\ r.choices = choiceList(QuerySelector(q, "choices"))
    /\ r.answerIndex = answerIndex(QuerySelector(q, "choices"))

\* C20: a listening section without script content gives one section: if a
\* direct question child is conversation-based, a
\* SelectResponseByConversationSection of exactly the conversation-based
\* questions in document order; otherwise a SelectSentenceByEnglishSentence
\* section of one question per direct question child, in document order, each
\* keeping its index, choices and answerIndex
C20_OneSection ==
    C20_Parsed =>
        LET based == SelectSeq(C20_Questions, C20_ConversationBased)
            kept == IF based # <<>> THEN based ELSE C20_Questions
        IN  /\ fnOut.type = IF based # <<>> THEN "SelectResponseByConversationSection"
                            ELSE "SelectSentenceByEnglishSentence"
            /\ Len(fnOut.questions) = Len(kept)
            /\ \A i \in 1..Len(kept) :
                  /\ fnOut.questions[i].type = IF based # <<>> THEN "SelectResponseByConversation"
                                               ELSE "SelectSentenceByEnglishSentence"
                  /\ C20_Keeps(fnOut.questions[i], kept[i])
                  /\ based # <<>> =>
                        fnOut.questions[i].conversation
                          = parseConversation(QuerySelector(kept[i], "content"))

\* two conversation questions are kept and the question between them is left out
C20_WitnessConversation ==
    /\ C20_Parsed
    /\ Len(C20_Questions) = 3
    /\ ~C20_ConversationBased(C20_Questions[2])
    /\ fnOut.type = "SelectResponseByConversationSection"
    /\ Len(fnOut.questions) = 2
    /\ fnOut.questions[1].index = <<"1">> /\ fnOut.questions[2].index = <<"3">>
    /\ fnOut.questions[2].answerIndex = 1

\* a sentence with blanks and a plain sentence are kept in order, next to a
\* conversation question that is no direct child
C20_WitnessSentence ==
    /\ C20_Parsed
    /\ Len(ScopeChildren(fnIn.section, "content")) = 1
    /\ fnOut.type = "SelectSentenceByEnglishSentence"
    /\ Len(fnOut.questions) = 2
    /\ fnOut.questions[1].question = <<"I", "n", "[", "a", "]", "[", "]">>
    /\ fnOut.questions[1].answerIndex = 0
    /\ fnOut.questions[2].question = <<"W", "h", "e", "r", "e", "?">>
    /\ fnOut.questions[2].answerIndex = -1

----------------------------------------------------------------------------
(* Claims about the Reallife sections of parseListeningSection *)

\* a section of script contents and sibling questions has been parsed
C21_Parsed == fnPc = "done" /\ fnIn.kind = "listening" /\ "kinds" \in DOMAIN fnIn

\* the script kinds of the section drawn, in document order
C21_Scripts == SelectSeq(fnIn.kinds, LAMBDA k : k.kind = "script")

\* situation and script of the script texts drawn, read off the pattern
\* "(clause) lead-sentence. rest" by hand
C21_Split(text) ==
    CASE text = <<"(", "A", ")", " ", "B", ".", " ", "C">> ->
            [situation |-> <<"(", "A", ")", "B">>, script |-> <<"C">>]
      [] text = <<"B", ".", " ", "C">> ->
            [situation |-> <<>>, script |-> <<"B", ".", " ", "C">>]
      [] text = <<"(", "A", ")", " ", "B">> ->
            [situation |-> <<>>, script |-> <<"(", "A", ")", " ", "B">>]
      [] text = <<"(", ")", " ", "B", ".", " ", "C">> ->
            [situation |-> <<>>, script |-> <<"(", ")", " ", "B", ".", " ", "C">>]
      [] text = <<"(", "A", ")", ".", "C", ".", " ", "D">> ->
            [situation |-> <<"(", "A", ")">>, script |-> <<"C", ".", " ", "D">>]
      [] text = <<"\n", "(", "A", " ", "A", ")", " ", " ", "B", ".", " ">> ->
            [situation |-> <<"(", "A", " ", "A", ")", "B">>, script |-> <<>>]

\* C21: a listening section with at least one direct content child of type
\* script gives a ReallifeSection of one Reallife per script, in document
\* order; a script text of the form "(clause) lead-sentence. rest" gives the
\* clause with the lead sentence as situation and the rest as script, any
\* other text the empty situation and the whole normalised text as script
C21_Reallifes ==
    (C21_Parsed /\ C21_Scripts # <<>>) =>
        /\ fnOut.type = "ReallifeSection"
        /\ Len(fnOut.questions) = Len(C21_Scripts)
        /\ \A j \in 1..Len(C21_Scripts) :
              LET r == fnOut.questions[j]
                  e == C21_Split(C21_Scripts[j].text)
              IN  /\ r.type = "Reallife"
                  /\ r.situation = e.situation
                  /\ r.script = [type |-> "Text",
                                 chunks |-> IF e.script = <<>> THEN <<>>
                                            ELSE <<[type |-> "EnglishChunk", text |-> e.script]>>]

\* a matching and a non-matching script stand in one section, around a
\* content that is no script
C21_Witness ==
    /\ C21_Parsed
    /\ Len(fnIn.kinds) = 3
    /\ fnIn.kinds[2].kind = "passage"
    /\ fnOut.type = "ReallifeSection"
    /\ Len(fnOut.questions) = 2
    /\ fnOut.questions[1].situation = <<"(", "A", ")", "B">>
    /\ fnOut.questions[1].script.chunks = <<[type |-> "EnglishChunk", text |-> <<"C">>]>>
    /\ fnOut.questions[2].situation = <<>>
    /\ fnOut.questions[2].script.chunks
          = <<[type |-> "EnglishChunk", text |-> <<"B", ".", " ", "C">>]>>

\* the places of the script contents among the children drawn
C22_ScriptPlaces == SelectSeq(Positions(fnIn.kinds), LAMBDA p : fnIn.kinds[p].kind = "script")

\* the places of the sibling questions whose trimmed for attribute is the
\* trimmed index of the script at place p
C22_SiblingPlaces(p) ==
    SelectSeq(Positions(fnIn.kinds),
              LAMBDA q : /\ fnIn.kinds[q].kind = "question"
                         /\ fnIn.kinds[q].for # Null
                         /\ fnIn.kinds[p].index # Null
                         /\ Trim(fnIn.kinds[q].for) = Trim(fnIn.kinds[p].index))

\* the 0-based positions of the marked choices, ascending
C22_Marked(marks) ==
    (IF 1 \in marks THEN <<0>> ELSE <<>>) \o (IF 2 \in marks THEN <<1>> ELSE <<>>)

\* the part expected of a question with that index and those marks
C22_Part(index, marks) ==
    [type |-> "ReallifePart", index |-> index,
     question |-> <<"W", "h", "e", "r", "e", "?">>,
     choices |-> <<[type |-> "EnglishPhraseChoice", choice |-> [type |-> "Text",
                       chunks |-> <<[type |-> "EnglishChunk", text |-> Tokyo]>>]],
                   [type |-> "EnglishPhraseChoice", choice |-> [type |-> "Text",
                       chunks |-> <<[type |-> "EnglishChunk", text |-> Osaka]>>]]>>,
     answerIndices |-> C22_Marked(marks)]

\* the parts expected of the script at place p: its nested question, then
\* the sibling questions that name its index
C22_Parts(p) ==
    LET sib == C22_SiblingPlaces(p)
    IN  (IF fnIn.kinds[p].nested
         THEN <<C22_Part(<<IndexDigits[p], "0">>, fnIn.kinds[p].marks)>> ELSE <<>>)
        \o [i \in 1..Len(sib) |->
              C22_Part(<<IndexDigits[sib[i]]>>, fnIn.kinds[sib[i]].marks)]

\* C22: the parts of each Reallife are the script's nested question children
\* followed by the sibling questions whose trimmed for attribute equals the
\* script's index, each in document order, each part with all the marked
\* positions of its own choices
C22_ReallifeParts ==
    (C21_Parsed /\ C22_ScriptPlaces # <<>>) =>
        \A j \in 1..Len(C22_ScriptPlaces) :
            fnOut.questions[j].parts = C22_Parts(C22_ScriptPlaces[j])

\* a script with a nested question is followed by two sibling questions that
\* name its index, one of them with white space and no mark, the other with
\* two marks
C22_Witness ==
    /\ C21_Parsed
    /\ fnOut.type = "ReallifeSection"
    /\ Len(fnOut.questions) = 1
    /\ Len(fnOut.questions[1].parts) = 3
    /\ fnOut.questions[1].parts[1].index = <<"1", "0">>
    /\ fnOut.questions[1].parts[1].answerIndices = <<0>>
    /\ fnOut.questions[1].parts[2].index = <<"2">>
    /\ fnOut.questions[1].parts[2].answerIndices = <<0, 1>>
    /\ fnOut.questions[1].parts[3].index = <<"3">>
    /\ fnOut.questions[1].parts[3].answerIndices = <<>>

----------------------------------------------------------------------------
(* Claims about the order of the chunks of chunksFromNodes *)

\* the characters of a text that are no white space, in order
C23_Visible(text) == SelectSeq(text, LAMBDA c : ~IsWs(c))

RECURSIVE C23_Leaves(_, _)
\* the text leaves and blanks of a node list in document order, a blank as
\* the token "<blank>", a text leaf as its visible characters; inBlank tells
\* whether the leaves inside blank and br elements are counted
C23_Leaves(nodes, inBlank) ==
    IF nodes = <<>> THEN <<>>
    ELSE LET h == Head(nodes)
         IN  (IF isText(h) THEN C23_Visible(h.rawText)
              ELSE IF ~isElement(h) THEN <<>>
              ELSE (IF h.tagName = "blank" THEN <<"<blank>">> ELSE <<>>)
                     \o (IF h.tagName \in {"blank", "br"} /\ ~inBlank THEN <<>>
                         ELSE C23_Leaves(h.childNodes, inBlank)))
                \o C23_Leaves(Tail(nodes), inBlank)

\* the chunks as tokens: a blank chunk as "<blank>", a text chunk as its
\* visible characters
C23_Emitted(chunks) ==
    Flatten([i \in 1..Len(chunks) |->
                IF chunks[i].type = "BlankChunk" THEN <<"<blank>">>
                ELSE C23_Visible(chunks[i].text)])

\* C23 (as claimed): the chunks follow document order through nesting, and
\* every text leaf with visible content, wherever it stands, gives its text
\* to exactly one chunk
C23_AsClaimed ==
    (cpc = "done" /\ cIn.kind = "nodes") =>
        C23_Emitted(cOut) = C23_Leaves(cIn.node.childNodes, TRUE)

\* C23: the chunks follow document order through nesting, blanks keep their
\* place among the text, and every text leaf with visible content that does
\* not stand inside a blank or br element gives its text to exactly one chunk
C23_DocumentOrder ==
    (cpc = "done" /\ cIn.kind = "nodes") =>
        C23_Emitted(cOut) = C23_Leaves(cIn.node.childNodes, FALSE)

\* text, then a nested element of text, blank and text, then text: five
\* chunks in document order
C23_Witness ==
    /\ cpc = "done" /\ cIn.kind = "nodes"
    /\ Len(cIn.node.childNodes) = 3
    /\ isText(cIn.node.childNodes[1])
    /\ isElement(cIn.node.childNodes[2]) /\ Len(cIn.node.childNodes[2].childNodes) = 3
    /\ Len(cOut) = 5
    /\ C23_Emitted(cOut) = <<"a", "a", "<blank>", "hi", "ja">>

\* a text leaf inside a blank element is in no chunk
C23_TextInBlank ==
    /\ cpc = "done" /\ cIn.kind = "nodes"
    /\ Len(cIn.node.childNodes) = 1
    /\ C23_Leaves(cIn.node.childNodes, TRUE) = <<"<blank>", "b">>
    /\ cOut = <<[type |-> "BlankChunk"]>>

----------------------------------------------------------------------------
(* Claims about parseContentUnderstanding *)

\* the spellings of completion among the type attributes drawn
C24_CompletionSpellings ==
    {<<"c", "o", "m", "p", "l", "e", "t", "i", "o", "n">>,
     <<"C", "o", "m", "p", "l", "e", "t", "i", "o", "n">>}

\* the body of the question drawn holds a blank element, at any depth
C24_BodyHasBlank(q) ==
    \E e \in Range(Descendants(q.childNodes[1].childNodes)) : e.tagName = "blank"

\* the variant the rule gives a question
C24_Rule(q) ==
    IF GetAttribute(q, "type") \in C24_CompletionSpellings \/ C24_BodyHasBlank(q)
    THEN "SentenceCompletion" ELSE "SelectTrueSentence"

\* C24: parseContentUnderstanding returns a SentenceCompletion exactly when
\* the type attribute is completion, in any case, or the body holds a blank
\* element, and a SelectTrueSentence otherwise
C24_Classified ==
    (fnPc = "done" /\ fnIn.kind = "question" /\ fnIn.by = "content") =>
        fnOut.type = C24_Rule(fnIn.node)

\* a question without type attribute whose blank stands inside an element of
\* the body is a SentenceCompletion
C24_Witness ==
    /\ fnPc = "done" /\ fnIn.kind = "question" /\ fnIn.by = "content"
    /\ GetAttribute(fnIn.node, "type") = Null
    /\ C24_BodyHasBlank(fnIn.node)
    /\ isElement(fnIn.node.childNodes[1].childNodes[2])
    /\ fnIn.node.childNodes[1].childNodes[2].tagName = "span"
    /\ fnOut.type = "SentenceCompletion"
    /\ fnOut.sentence.chunks = <<[type |-> "EnglishChunk", text |-> <<"a">>],
                                 [type |-> "BlankChunk"]>>

\* a question of type Completion without blank is a SentenceCompletion
C24_WitnessType ==
    /\ fnPc = "done" /\ fnIn.kind = "question" /\ fnIn.by = "content"
    /\ ~C24_BodyHasBlank(fnIn.node)
    /\ GetAttribute(fnIn.node, "type") = <<"C", "o", "m", "p", "l", "e", "t", "i", "o", "n">>
    /\ fnOut.type = "SentenceCompletion"
    /\ fnOut.sentence.chunks = <<[type |-> "EnglishChunk", text |-> <<"a", " ", "b">>]>>
    /\ Len(fnOut.choices) = 2

\* C24 (its second sentence): the questions of the content sections built
\* from a parsed reading section are SentenceCompletion where the body holds
\* a blank and SelectTrueSentence where it holds none
C24_SectionQuestions ==
    (fnPc = "done" /\ fnIn.kind = "flatten") =>
        \A s \in 1..Len(fnOut.sections) :
            fnOut.sections[s].type \in {"ReadContentAndAnswerSection",
                                       "MultipleReadContentAndAnswerSection"}
            => \A q \in Range(C15_QuestionsOf(fnOut.sections[s])) :
                  \/ /\ q.type = "SentenceCompletion"
                     /\ \E i \in 1..Len(q.sentence.chunks) : q.sentence.chunks[i].type = "BlankChunk"
                  \/ /\ q.type = "SelectTrueSentence"
                     /\ q.question = <<"W", "h", "e", "r", "e", " ", "?">>

\* a content section holds a SentenceCompletion and a SelectTrueSentence
C24_SectionWitness ==
    /\ fnPc = "done" /\ fnIn.kind = "flatten"
    /\ Len(fnOut.sections) = 1
    /\ fnOut.sections[1].type = "ReadContentAndAnswerSection"
    /\ Len(fnOut.sections[1].questions) = 2
    /\ fnOut.sections[1].questions[1].type = "SentenceCompletion"
    /\ fnOut.sections[1].questions[2].type = "SelectTrueSentence"

----------------------------------------------------------------------------
(* Claims about detectBlankIndices *)

\* the numbers N that occur in a text as N followed by 番目: N is a run of
\* digits with no digit before it
C25_Numbers(text) ==
    {NumberOf(SubSeq(text, p[1], p[2])) :
        p \in {q \in (1..Len(text)) \X (1..Len(text)) :
                  /\ q[1] <= q[2]
                  /\ \A k \in q[1]..q[2] : IsDigit(text[k])
                  /\ q[1] = 1 \/ ~IsDigit(text[q[1] - 1])
                  /\ q[2] + 2 <= Len(text)
                  /\ text[q[2] + 1] = "ban" /\ text[q[2] + 2] = "me"}}

\* the sequence is strictly ascending and its elements are those of the set
C25_SortedOf(seq, set) ==
    /\ \A i \in 1..(Len(seq) - 1) : seq[i] < seq[i + 1]
    /\ Range(seq) = set

\* the texts of the questions drawn, normalised and joined
C25_QuestionText ==
    JoinWithSpace([i \in 1..Len(fnIn.questions) |-> normalizeWs(TextOf(fnIn.questions[i]))])

\* C25: detectBlankIndices gives the numbers N occurring as "N番目" without
\* duplicates and ascending; blankIndices is that result for the hint text
\* when it is not empty, and otherwise the result for the joined text of the
\* section's questions
C25_BlankIndices ==
    (fnPc = "done" /\ fnIn.kind = "wordorder") =>
        LET hinted == C25_Numbers(normalizeWs(fnIn.hint))
        IN  C25_SortedOf(fnOut.blankIndices,
                         IF hinted # {} THEN hinted ELSE C25_Numbers(C25_QuestionText))

\* the hint names the fourth place, then the second twice, once with a zero
\* before it: the result is 2, 4, whatever the questions say
C25_Witness ==
    /\ fnPc = "done" /\ fnIn.kind = "wordorder"
    /\ fnIn.hint = <<"4", "ban", "me", "0", "2", "ban", "me">>
    /\ Len(fnIn.questions) = 1
    /\ C25_Numbers(C25_QuestionText) = {}
    /\ fnOut.blankIndices = <<2, 4>>

\* the hint is not empty but names no place: the result comes from the
\* questions, which name the fourth place once and the second twice
C25_WitnessFallback ==
    /\ fnPc = "done" /\ fnIn.kind = "wordorder"
    /\ fnIn.hint = <<"a", " ", "ban", "me">>
    /\ Len(fnIn.questions) = 2
    /\ fnOut.blankIndices = <<2, 4>>

----------------------------------------------------------------------------
(* Claims about parseContentNode *)

\* the variant the claim gives a type attribute as written
C26_Variant(t) ==
    IF t \in {<<"e", "m", "a", "i", "l">>, <<"E", "m", "a", "i", "l">>} THEN "EmailContent"
    ELSE IF t = <<"p", "o", "s", "t", "e", "r">> THEN "PosterContent"
    ELSE "PassageContent"

\* the chunks of the bodies drawn, written out
C26_Chunks(body) ==
    CASE body = <<>> -> <<>>
      [] Len(body) = 1 -> <<[type |-> "EnglishChunk", text |-> <<"a", " ", "b">>]>>
      [] Len(body) = 2 -> <<[type |-> "EnglishChunk", text |-> <<"a">>],
                            [type |-> "EnglishChunk", text |-> <<"b">>]>>
      [] Len(body) = 3 -> <<[type |-> "EnglishChunk", text |-> <<"a">>],
                            [type |-> "BlankChunk", id |-> <<"1">>],
                            [type |-> "JapaneseChunk", text |-> <<"hi">>]>>

\* C26: parseContentNode gives EmailContent for type email, PosterContent
\* for type poster and PassageContent for every other type attribute,
\* missing and unknown ones included, always with the chunks of the content
C26_ContentVariant ==
    (fnPc = "done" /\ fnIn.kind = "content") =>
        fnOut = [type |-> C26_Variant(GetAttribute(fnIn.node, "type")),
                 content |-> [type |-> "Text", chunks |-> C26_Chunks(fnIn.node.childNodes)]]

\* a content of unknown type is a PassageContent that keeps its three chunks
C26_Witness ==
    /\ fnPc = "done" /\ fnIn.kind = "content"
    /\ GetAttribute(fnIn.node, "type") = <<"m", "e", "m", "o">>
    /\ fnOut.type = "PassageContent"
    /\ Len(fnOut.content.chunks) = 3

\* a content of type Email is an EmailContent
C26_WitnessEmail ==
    /\ fnPc = "done" /\ fnIn.kind = "content"
    /\ GetAttribute(fnIn.node, "type") = <<"E", "m", "a", "i", "l">>
    /\ fnOut.type = "EmailContent"
    /\ Len(fnOut.content.chunks) = 2

----------------------------------------------------------------------------
(* C27: a section of a type the switch does not know ends the run          *)

C27_Handled ==
    {"SelectSentenceByEnglishSentence", "ReallifeSection", "ShortSentenceClozeSection",
     "MultipleReadContentAndAnswerSection", "SelectResponseByConversationSection",
     "ReadContentAndAnswerSection", "JapaneseTranslateWordOrderCombinationSection"}

C27_Sections(doc) == doc.listeningSections \o doc.readingSections

C27_HasUnknown(doc) ==
    \E i \in 1..Len(C27_Sections(doc)) : C27_Sections(doc)[i].type \notin C27_Handled

\* a section of a handled type raises the error of stringifyText
C27_HasBlankError(doc) ==
    \E i \in 1..Len(C27_Sections(doc)) :
        /\ C27_Sections(doc)[i].type = "SelectSentenceByEnglishSentence"
        /\ \E q \in 1..Len(C27_Sections(doc)[i].questions) :
             \E c \in 1..Len(C27_Sections(doc)[i].questions[q].choices) :
                \E k \in 1..Len(C27_Sections(doc)[i].questions[q].choices[c].choice.chunks) :
                    C27_Sections(doc)[i].questions[q].choices[c].choice.chunks[k].type
                        = "BlankChunk"

\* C27: a section whose type the switch does not recognise is fatal for the
\* run: no output exists for a document that contains one, the run does not
\* end normally when some document contains one, the run that stops at such
\* a document stops with 'Unknown section type', and the document it stops
\* at and the documents not yet scanned have no output
C27_Fatal ==
    (fnIn.kind = "sources") =>
        /\ \A p \in DOMAIN fnOut.written : ~C27_HasUnknown(fnIn.docs[p])
        /\ (fnPc = "done") => \A p \in DOMAIN fnIn.docs : ~C27_HasUnknown(fnIn.docs[p])
        /\ (fnPc = "crashed") =>
              /\ fnOut.failed \in fnOut.remaining
              /\ fnOut.remaining \cap DOMAIN fnOut.written = {}
              /\ (C27_HasUnknown(fnIn.docs[fnOut.failed])
                    /\ ~C27_HasBlankError(fnIn.docs[fnOut.failed]))
                     => fnOut.error = <<UnknownSectionType>>

\* the run takes no step after the error
C27_NoStepAfter == [][fnPc # "crashed"]_vars

\* a run that wrote one document, stopped at an unknown section that follows
\* a known one, and left a third document unscanned
C27_Witness ==
    /\ fnIn.kind = "sources" /\ fnPc = "crashed"
    /\ fnOut.error = <<UnknownSectionType>>
    /\ fnIn.docs[fnOut.failed] = TestOf(<<SentenceSection>>, <<EmailSection>>)
    /\ Cardinality(DOMAIN fnOut.written) = 1
    /\ Cardinality(fnOut.remaining) = 2

----------------------------------------------------------------------------
(* C28: the strings collected for a section are what the section gives     *)

\* the strings processSection collects for the sections of a document
C28_Collected(doc) ==
    Flatten([i \in 1..Len(C27_Sections(doc)) |-> SectionSources(C27_Sections(doc)[i]).sources])

\* C28: the source list written for a document holds, for every section of a
\* handled type, the strings collected for that section (trimmed, with the
\* typographic characters replaced)
C28_Contributes ==
    (fnIn.kind = "sources") =>
        \A p \in DOMAIN fnOut.written :
            fnOut.written[p] =
                [i \in 1..Len(C28_Collected(fnIn.docs[p])) |->
                    ReplaceTypographic(Trim(C28_Collected(fnIn.docs[p])[i]))]

\* the same for the sections whose case ends in a return statement
C28_ContributesWhenReturned ==
    (fnIn.kind = "sources") =>
        \A p \in DOMAIN fnOut.written :
            (\A i \in 1..Len(C27_Sections(fnIn.docs[p])) :
                 SectionSources(C27_Sections(fnIn.docs[p])[i]).returned)
              => fnOut.written[p] =
                   [i \in 1..Len(C28_Collected(fnIn.docs[p])) |->
                       ReplaceTypographic(Trim(C28_Collected(fnIn.docs[p])[i]))]

\* a document of one ReallifeSection with a question is written with an
\* empty source list
C28_ReallifeLost ==
    /\ fnIn.kind = "sources"
    /\ \E p \in DOMAIN fnOut.written :
          /\ fnIn.docs[p] = TestOf(<<ReallifeSection>>, <<>>)
          /\ fnOut.written[p] = <<>>

\* the strings of a ShortSentenceClozeSection are missing from the output
C28_ClozeLost ==
    /\ fnIn.kind = "sources"
    /\ \E p \in DOMAIN fnOut.written :
          /\ fnIn.docs[p] = TestOf(<<SentenceSection>>, <<ClozeSection>>)
          /\ fnOut.written[p] = <<<<"W", "h", "o", "?">>, <<"T", "o", "m">>>>

----------------------------------------------------------------------------
(* C29: the documents are written one test id at a time, smallest first    *)

\* the test ids that sort before t
C29_Before(t) == {u \in DOMAIN byTest : StrLess(u, t)}

\* the test id a logged operation belongs to
C29_TestIdAt(i) ==
    CHOOSE u \in DOMAIN byTest :
        IF log[i].op = "write" THEN log[i].path = OutPath(u)
        ELSE \E k \in 1..Len(byTest[u]) : byTest[u][k] = log[i].path

\* the output paths written before the i-th logged operation
C29_WrittenBefore(i) == {log[j].path : j \in {k \in 1..(i - 1) : log[k].op = "write"}}

\* every read and every write of a test id happens when exactly the documents
\* of the smaller test ids have been written, each of them once
C29_Ascending ==
    \A i \in 1..Len(log) :
        /\ C29_WrittenBefore(i) = {OutPath(u) : u \in C29_Before(C29_TestIdAt(i))}
        /\ Cardinality({k \in 1..(i - 1) : log[k].op = "write"})
              = Cardinality(C29_Before(C29_TestIdAt(i)))

\* the test id whose document the run refused to overwrite
C29_Refused == CHOOSE u \in DOMAIN byTest : error.path = OutPath(u)

\* at a refusal the documents of the smaller test ids are written and no
\* other document is
C29_AtRefusal ==
    (mpc = "failed") =>
        /\ C29_WrittenBefore(Len(log) + 1) = {OutPath(u) : u \in C29_Before(C29_Refused)}
        /\ \A u \in C29_Before(C29_Refused) :
              /\ OutPath(u) \in DOMAIN outDocs
              /\ outDocs[OutPath(u)] # OldDoc
        /\ \A u \in DOMAIN byTest \ C29_Before(C29_Refused) :
              OutPath(u) \in DOMAIN outDocs => outDocs[OutPath(u)] = OldDoc

\* C29: the Test documents are written one test id at a time in ascending
\* order of the test id, each before the files of the next test id are read;
\* when the run refuses to overwrite at a test id, the documents of all
\* smaller test ids have been written and none for it or a larger one
C29_WriteOrder == C29_Ascending /\ C29_AtRefusal

\* a run over three test ids that wrote the first document and was refused at
\* the second
C29_Witness ==
    /\ mpc = "failed"
    /\ Cardinality(DOMAIN byTest) = 3
    /\ Cardinality(C29_Before(C29_Refused)) = 1
    /\ \E i \in 1..Len(log) : log[i].op = "write"
    /\ \E u \in DOMAIN byTest : StrLess(C29_Refused, u) /\ OutPath(u) \notin DOMAIN outDocs

\* a run that wrote three documents
C29_WitnessAll ==
    /\ mpc = "done"
    /\ Cardinality({k \in 1..Len(log) : log[k].op = "write"}) = 3

----------------------------------------------------------------------------
(* C30: the parts of the adapter's stream and its end                      *)

C30_Places(type) == {i \in 1..Len(fnOut.enqueued) : fnOut.enqueued[i].type = type}

\* the order of the parts enqueued so far, and the end of the stream
C30_Parts ==
    (fnIn.kind = "stream") =>
        /\ Cardinality(C30_Places("text-start")) <= 1
        /\ \A i \in C30_Places("text-delta") : \E j \in C30_Places("text-start") : j < i
        /\ \A i \in C30_Places("text-end") :
              /\ \E j \in C30_Places("text-start") : j < i
              /\ i < Len(fnOut.enqueued)
              /\ fnOut.enqueued[i + 1].type = "finish"
        /\ (fnOut.state = "closed" \/ fnOut.threadClosed) =>
              /\ fnOut.consumed = Len(fnIn.chunks)
              /\ ~fnIn.throws
              /\ fnOut.state = "closed" /\ fnOut.threadClosed
        /\ (fnIn.throws /\ fnPc = "done") =>
              /\ fnOut.state = "errored"
              /\ ~fnOut.threadClosed

\* a text-end is enqueued only by the round that consumes a done chunk
C30_EndOnDone ==
    (fnIn.kind = "stream"
        /\ \E i \in (Len(fnOut.enqueued) + 1)..Len(fnOut'.enqueued) :
              fnOut'.enqueued[i].type = "text-end")
      => /\ fnOut.consumed < Len(fnIn.chunks)
         /\ fnIn.chunks[fnOut.consumed + 1].type = "done"

\* C30: text-start is enqueued at most once and before the first text-delta;
\* text-end is enqueued only on a done chunk, only after text-start, and
\* immediately before finish; the stream and the thread are closed only when
\* the iterator is exhausted; when the iterator throws the stream is put in
\* the error state and is not closed
C30_Stream == []C30_Parts /\ [][C30_EndOnDone]_vars

\* a closed stream of two text deltas, one text-start, and text-end before
\* finish
C30_Witness ==
    /\ fnIn.kind = "stream" /\ fnPc = "done"
    /\ fnOut.state = "closed" /\ fnOut.threadClosed
    /\ Cardinality(C30_Places("text-delta")) = 2
    /\ Cardinality(C30_Places("text-start")) = 1
    /\ Cardinality(C30_Places("text-end")) = 1
    /\ fnOut.enqueued[Len(fnOut.enqueued)].type = "finish"

\* the iterator threw after a text delta: the stream is in the error state
C30_WitnessError ==
    /\ fnIn.kind = "stream" /\ fnPc = "done"
    /\ fnIn.throws
    /\ fnOut.state = "errored"
    /\ C30_Places("text-delta") # {}
    /\ C30_Places("text-end") = {}

====
